---- MODULE Spec2Model ----
(***************************************************************************)
(* MemoryVault: auto-hide of extracted messages, branch reconciliation     *)
(* (un-hide and memory pruning), memory retrieval, the parsing of the      *)
(* extraction output, secret memories, the relationship and character      *)
(* reducers, the goal, skill and location stores, and memory deletion.     *)
(*                                                                         *)
(* Message indices are the 0-based indices of the host's chat array; the   *)
(* chat is kept as a TLA+ sequence, so message idx is chat[idx + 1].       *)
(***************************************************************************)
EXTENDS Integers, Sequences, FiniteSets, TLC

\* ---------------------------------------------------------------- bounds
MaxChat == 3
MaxMemories == 2
MaxExtracted == 1
MaxThreshold == 1
MaxTimers == 1
MaxBudget == 1
MaxParsed == 2
MaxImpacts == 3
MaxReduced == 2
MaxStored == 2
MaxUses == 3
MaxBook == 1
MaxSecrets == 2

\* ------------------------------------------------------------- constants
DefaultThreshold == 50
MAX_EMOTION_HISTORY == 50
Undefined == "undefined"

\* Character names in the order of JavaScript's default sort().
NameList == <<"Alice", "Bob">>
Names == {NameList[k] : k \in 1..Len(NameList)}

VARIABLES chat, memories, characters, relationships, settings, timers,
          nextId, lastOp, pre, ret, retrieved, goals, skills, locations,
          secrets, activeChat, scheduledIn

vars == <<chat, memories, characters, relationships, settings, timers,
          nextId, lastOp, pre, ret, retrieved, goals, skills, locations,
          secrets, activeChat, scheduledIn>>

\* The goal, skill, location and secret sections of the vault.
stores == <<goals, skills, locations, secrets>>

\* The conversation that is active in the host, and for each pending
\* auto-hide timer the conversation that was active when it was scheduled.
host == <<activeChat, scheduledIn>>

\* ---------------------------------------------------------------- helpers
Min(a, b) == IF a < b THEN a ELSE b

SeqToSet(s) == {s[k] : k \in 1..Len(s)}

RangeSeq(a, b) == [k \in 1..(b - a + 1) |-> a + k - 1]

Max(a, b) == IF a > b THEN a ELSE b

\* Math.min(...ids) and Math.max(...ids) of a non-empty array.
MinOf(ids) == CHOOSE x \in SeqToSet(ids) : \A y \in SeqToSet(ids) : x <= y
MaxOf(ids) == CHOOSE x \in SeqToSet(ids) : \A y \in SeqToSet(ids) : x >= y

\* An optional value (absent property, null): <<>> is absent, <<v>> is v.
None == <<>>
Some(v) == <<v>>
IsSome(o) == Len(o) > 0

\* a || b on optional arrays: an array, also an empty one, is truthy.
OrElse(o, alt) == IF IsSome(o) THEN o ELSE alt

Includes(list, x) == \E k \in 1..Len(list) : list[k] = x

\* ------------------------------------------------------------- chat host
\* A regular user/assistant message as the host stores it: it carries the
\* is_user and name fields and is visible.
RegularMessage ==
    [is_system |-> FALSE, is_user |-> "false", name |-> "Char", hider |-> "none"]

\* A true system message of the host: is_system is set and it has neither an
\* is_user nor a name field.  hider records who set the flag of a hidden
\* message (the host or auto-hide); the program has no such field.
SystemMessage ==
    [is_system |-> TRUE, is_user |-> Undefined, name |-> Undefined, hider |-> "host"]

MsgKinds == {RegularMessage, SystemMessage}

NoRet == [unhiddenCount |-> 0, rehiddenCount |-> 0, prunedCount |-> 0]

\* ------------------------------------------------- extraction/scheduler.js
\* The message indices that have been extracted into memories.
getExtractedMessageIds(mems) ==
    UNION {SeqToSet(mems[k].message_ids) : k \in 1..Len(mems)}

\* ------------------------------------------------------------ auto-hide.js
\* const threshold = settings.autoHideThreshold || 50;
ThresholdNoDefault(s) == s.autoHideThreshold

\* settings.autoHideThreshold || 50
Threshold(s) ==
    IF s.autoHideThreshold = 0 THEN DefaultThreshold ELSE s.autoHideThreshold

\* chat.map((m, idx) => ({...m, idx})).filter(m => !m.is_system), as the
\* sequence of the original indices.
visibleMessages(c) ==
    SelectSeq([k \in 1..Len(c) |-> k - 1], LAMBDA idx : ~c[idx + 1].is_system)

messagesToHideNoPairs(visibleCount, threshold) == visibleCount - threshold

\* Math.floor(toHideCount / 2) * 2
messagesToHide(visibleCount, threshold) ==
    ((visibleCount - threshold) \div 2) * 2

HideTestNoExtractionCheck(msgIdx, extractedMessageIds) == TRUE

\* The hide test of the loop body: extractedMessageIds.has(msgIdx)
HideTest(msgIdx, extractedMessageIds) == msgIdx \in extractedMessageIds

\* for (i = 0; i < messagesToHide && i < visibleMessages.length; i++)
\*     if (extractedMessageIds.has(msgIdx)) chat[msgIdx].is_system = true;
HideLoopFirstOnly(c, vis, n, extractedMessageIds) ==
    [k \in 1..Len(c) |->
        IF \E i \in 1..Min(n, Len(vis)) :
              /\ vis[i] = k - 1
              /\ HideTest(vis[i], extractedMessageIds)
              /\ \A j \in 1..(i - 1) : ~HideTest(vis[j], extractedMessageIds)
        THEN [c[k] EXCEPT !.is_system = TRUE, !.hider = "auto"]
        ELSE c[k]]

HideLoop(c, vis, n, extractedMessageIds) ==
    [k \in 1..Len(c) |->
        IF \E i \in 1..Min(n, Len(vis)) :
              vis[i] = k - 1 /\ HideTest(vis[i], extractedMessageIds)
        THEN [c[k] EXCEPT !.is_system = TRUE, !.hider = "auto"]
        ELSE c[k]]

\* The chat after one run of autoHideOldMessages.
autoHideOldMessages(c, mems, s) ==
    IF ~s.autoHideEnabled THEN c
    ELSE LET threshold == Threshold(s)
             vis == visibleMessages(c)
         IN  IF Len(vis) <= threshold THEN c
             ELSE LET n == messagesToHide(Len(vis), threshold)
                  IN  IF n <= 0 THEN c
                      ELSE HideLoop(c, vis, n, getExtractedMessageIds(mems))

\* const isAutoHidden = chat[i].is_user !== undefined || chat[i].name !== undefined
isAutoHidden(m) == m.is_user # Undefined \/ m.name # Undefined

UnhideTestAll(m) == m.is_system = TRUE

UnhideTest(m) == m.is_system = TRUE /\ isAutoHidden(m)

\* First pass of unhideMessagesForBranch over chat[0..upto-1]: the number of
\* flags it clears.
RECURSIVE UnhideCount(_, _)
UnhideCount(c, upto) ==
    IF upto = 0 THEN 0
    ELSE UnhideCount(c, upto - 1) + (IF UnhideTest(c[upto]) THEN 1 ELSE 0)

UnhideLoop(c) ==
    [k \in 1..Len(c) |->
        IF UnhideTest(c[k])
        THEN [c[k] EXCEPT !.is_system = FALSE, !.hider = "none"]
        ELSE c[k]]

unhideMessagesForBranch(c) ==
    IF Len(c) = 0
    THEN [chat |-> c, unhiddenCount |-> 0, rehiddenCount |-> 0]
    ELSE [chat |-> UnhideLoop(c),
          unhiddenCount |-> UnhideCount(c, Len(c)), rehiddenCount |-> 0]

\* ------------------------------------------------- extraction/parser.js
\* A raw event of the extraction output, with the fields the reducer reads;
\* summary is the token estimate of the summary text.
\* location is a text; goal is a record of character and goal, skill one of
\* character and skill, where an empty character or text is an absent one.
\* emotional_impact and relationship_impact are the entries of the objects in
\* Object.entries order.
EmptyEvent ==
    [summary |-> 1, characters_involved |-> None, witnesses |-> None,
     is_secret |-> FALSE, known_by |-> None, importance |-> None,
     emotional_impact |-> <<>>, relationship_impact |-> <<>>,
     location |-> None, goal |-> None, skill |-> None]

ImportanceNoClamp(event) ==
    IF IsSome(event.importance) /\ event.importance[1] # 0
    THEN event.importance[1] ELSE 3

ImportanceZeroKept(event) ==
    LET given == IF IsSome(event.importance) THEN event.importance[1] ELSE 3
    IN  Min(5, Max(1, given))

\* Math.min(5, Math.max(1, event.importance || 3))
Importance(event) ==
    LET given == IF IsSome(event.importance) /\ event.importance[1] # 0
                 THEN event.importance[1] ELSE 3
    IN  Min(5, Max(1, given))

sequenceNoIndex(minMessageId, index) == minMessageId * 1000

sequenceMinusIndex(minMessageId, index) == minMessageId * 1000 - index

\* sequence: minMessageId * 1000 + index
sequence(minMessageId, index) == minMessageId * 1000 + index

\* One element of the events.map(...) of parseExtractionResult.
ParseEvent(event, index, id, messageIds) ==
    [id |-> id,
     summary |-> event.summary,
     message_ids |-> messageIds,
     sequence |-> sequence(MinOf(messageIds), index),
     characters_involved |-> OrElse(event.characters_involved, Some(<<>>))[1],
     witnesses |->
        OrElse(event.witnesses, OrElse(event.characters_involved, Some(<<>>)))[1],
     is_secret |-> event.is_secret,
     known_by |->
        IF event.is_secret
        THEN OrElse(event.known_by,
                 OrElse(event.witnesses,
                     OrElse(event.characters_involved, Some(<<>>))))
        ELSE None,
     importance |-> Importance(event),
     emotional_impact |-> event.emotional_impact,
     relationship_impact |-> event.relationship_impact,
     location |-> IF IsSome(event.location) /\ event.location[1] # <<>>
                  THEN event.location ELSE None,
     goal |-> event.goal,
     skill |-> event.skill,
     pinned |-> FALSE]

\* The elements of the parsed extraction output.  An element is an event
\* object, null, or a number; event holds the fields of an object, and an
\* element that is no object has none of them (summary 0 is an absent summary).
NoFields == [EmptyEvent EXCEPT !.summary = 0]
RawObject(event) == [kind |-> "object", event |-> event]
RawNull == [kind |-> "null", event |-> NoFields]
RawNumber == [kind |-> "number", event |-> NoFields]

\* The extraction output: text that does not parse, one event object, or an
\* array of elements.
Unparseable == [kind |-> "unparseable", elements |-> <<>>]
SingleObject(raw) == [kind |-> "single", elements |-> <<raw>>]
ArrayOf(elements) == [kind |-> "array", elements |-> elements]

\* safeParseJSON(jsonString): a falsy value when the text does not parse.
safeParseJSON(payload) ==
    IF payload.kind = "unparseable" THEN None ELSE Some(payload.elements)

\* parseExtractionResult(jsonString, messages, ...): the events it returns, or
\* threw when the map callback raises a TypeError (event.characters_involved
\* of a null element).  firstId is the id generateId() gives the first event.
parseExtractionResult(payload, messageIds, firstId) ==
    LET parsed == safeParseJSON(payload)
    IN  IF ~IsSome(parsed) THEN [threw |-> FALSE, events |-> <<>>]
        ELSE LET events == parsed[1]
             IN  IF \E k \in 1..Len(events) : events[k].kind = "null"
                 THEN [threw |-> TRUE, events |-> <<>>]
                 ELSE [threw |-> FALSE,
                       events |-> [k \in 1..Len(events) |->
                                     ParseEvent(events[k].event, k - 1,
                                                firstId + k - 1, messageIds)]]

NewCharacter(charName) ==
    [name |-> charName, current_emotion |-> "neutral", emotion_intensity |-> 5,
     known_events |-> <<>>, emotion_history |-> <<>>]

EnsureCharacter(chars, charName) ==
    IF charName \in DOMAIN chars THEN chars
    ELSE chars @@ (charName :> NewCharacter(charName))

TrimKeepOldest(history) ==
    IF Len(history) > MAX_EMOTION_HISTORY
    THEN SubSeq(history, 1, MAX_EMOTION_HISTORY)
    ELSE history

\* slice(-MAX_EMOTION_HISTORY) once the history exceeds the maximum
Trim(history) ==
    IF Len(history) > MAX_EMOTION_HISTORY
    THEN SubSeq(history, Len(history) - MAX_EMOTION_HISTORY + 1, Len(history))
    ELSE history

RECURSIVE ApplyEmotionsNoCurrent(_, _, _)
ApplyEmotionsNoCurrent(chars, event, k) ==
    IF k > Len(event.emotional_impact) THEN chars
    ELSE LET charName == event.emotional_impact[k][1]
             emotion == event.emotional_impact[k][2]
             c1 == EnsureCharacter(chars, charName)
             entry == [emotion |-> emotion, event_id |-> event.id]
             c2 == [c1 EXCEPT ![charName].emotion_history = Trim(Append(@, entry))]
         IN  ApplyEmotionsNoCurrent(c2, event, k + 1)

\* The emotional_impact loop of updateCharacterStatesFromEvents, entries
\* k..Len of one event.
RECURSIVE ApplyEmotions(_, _, _)
ApplyEmotions(chars, event, k) ==
    IF k > Len(event.emotional_impact) THEN chars
    ELSE LET charName == event.emotional_impact[k][1]
             emotion == event.emotional_impact[k][2]
             c1 == EnsureCharacter(chars, charName)
             entry == [emotion |-> emotion, event_id |-> event.id]
             c2 == [c1 EXCEPT ![charName].emotion_history = Trim(Append(@, entry)),
                              ![charName].current_emotion = emotion]
         IN  ApplyEmotions(c2, event, k + 1)

KnownEventsPushAlways(known_events, id) == Append(known_events, id)

\* if (!known_events.includes(event.id)) known_events.push(event.id)
KnownEventsPush(known_events, id) ==
    IF Includes(known_events, id) THEN known_events ELSE Append(known_events, id)

\* The witness loop of updateCharacterStatesFromEvents, witnesses k..Len.
RECURSIVE ApplyWitnesses(_, _, _)
ApplyWitnesses(chars, event, k) ==
    IF k > Len(event.witnesses) THEN chars
    ELSE LET witness == event.witnesses[k]
             c1 == EnsureCharacter(chars, witness)
             c2 == [c1 EXCEPT ![witness].known_events = KnownEventsPush(@, event.id)]
         IN  ApplyWitnesses(c2, event, k + 1)

RECURSIVE updateCharacterStatesFromEvents(_, _)
updateCharacterStatesFromEvents(events, chars) ==
    IF Len(events) = 0 THEN chars
    ELSE updateCharacterStatesFromEvents(Tail(events),
             ApplyWitnesses(ApplyEmotions(chars, Head(events), 1), Head(events), 1))

\* The relationship dimensions, and a structured impact that carries none.
Dims == {"trust", "tension", "respect", "attraction", "fear", "loyalty", "familiarity"}
NoDeltas == [d \in Dims |-> None]

NewRelationship(a, b) ==
    [character_a |-> a, character_b |-> b,
     level |-> [d \in Dims |->
                  CASE d \in {"trust", "respect", "loyalty"} -> 5
                    [] d = "familiarity" -> 1
                    [] OTHER -> 0],
     relationship_type |-> "acquaintance",
     history |-> <<>>,
     last_updated_message_id |-> None]

clampNoMax(value, min, max) == Max(min, value)

clamp(value, min, max) == Min(max, Max(min, value))

applyStructuredImpactFamiliar(rel, impact) ==
    [rel EXCEPT !.level =
        [d \in Dims |->
            IF IsSome(impact.deltas[d]) THEN clamp(@[d] + impact.deltas[d][1], 0, 10)
            ELSE IF d = "familiarity" THEN Min(10, @[d] + 1)
            ELSE @[d]]]

\* typeof impact.<dim> === 'number' ? clamp(level + delta, 0, 10) : level
applyStructuredImpact(rel, impact) ==
    [rel EXCEPT !.level =
        [d \in Dims |->
            IF IsSome(impact.deltas[d]) THEN clamp(@[d] + impact.deltas[d][1], 0, 10)
            ELSE @[d]]]

\* A legacy impact string is the set of the keywords it contains.
Has(text, kw) == kw \in text
HasAll(text, kws) == \A kw \in kws : kw \in text

HasAny(text, kws) == \E kw \in kws : kw \in text

UpNoCap(v) == v + 1

Up(v) == Min(10, v + 1)
DownNoFloor(v) == v - 1

Down(v) == Max(0, v - 1)

applyLegacyImpact(rel, text) ==
    [rel EXCEPT !.level =
        [d \in Dims |->
            CASE d = "trust" ->
                   IF Has(text, "trust") /\ HasAny(text, {"increas", "deepen", "gain"})
                   THEN Up(@[d])
                   ELSE IF Has(text, "trust") /\ HasAny(text, {"decreas", "lost", "betray"})
                   THEN Down(@[d]) ELSE @[d]
              [] d = "tension" ->
                   IF Has(text, "tension") /\ Has(text, "increas") THEN Up(@[d])
                   ELSE IF Has(text, "tension") /\ Has(text, "decreas")
                   THEN Down(@[d]) ELSE @[d]
              [] d = "respect" ->
                   IF Has(text, "respect") /\ HasAny(text, {"gain", "increas", "shown"})
                   THEN Up(@[d])
                   ELSE IF Has(text, "respect") /\ HasAny(text, {"lost", "decreas"})
                   THEN Down(@[d]) ELSE @[d]
              [] d = "attraction" ->
                   IF HasAny(text, {"attract", "desire", "romantic", "intimacy"})
                   THEN Up(@[d]) ELSE @[d]
              [] d = "fear" ->
                   IF HasAny(text, {"fear", "intimidat", "threat"}) THEN Up(@[d])
                   ELSE IF HasAny(text, {"reassur", "comfort"})
                   THEN Down(@[d]) ELSE @[d]
              [] d = "loyalty" ->
                   IF HasAny(text, {"loyal", "devotion", "commit"}) THEN Up(@[d])
                   ELSE IF HasAny(text, {"betray", "abandon"})
                   THEN Down(@[d]) ELSE @[d]
              [] OTHER -> Up(@[d])]]

\* A structured impact and a legacy impact, as one record shape.
StructuredImpact(deltas) == [kind |-> "object", deltas |-> deltas, text |-> {}]
LegacyImpact(text) == [kind |-> "string", deltas |-> NoDeltas, text |-> text]

Rank(n) == CHOOSE k \in 1..Len(NameList) : NameList[k] = n

RelationKeyDirected(charA, charB) == <<charA, charB>>

\* [charA, charB].sort() and the key `${sortedNames[0]}<->${sortedNames[1]}`
RelationKey(charA, charB) ==
    IF Rank(charA) <= Rank(charB) THEN <<charA, charB>> ELSE <<charB, charA>>

\* The relationship_impact loop of updateRelationshipsFromEvents, entries
\* k..Len of one event.  An entry is [match, charA, charB, impact]; match is
\* whether relationKey matches /^(.+?)\s*->\s*(.+)$/.
RECURSIVE ApplyRelations(_, _, _)
ApplyRelations(rels, event, k) ==
    IF k > Len(event.relationship_impact) THEN rels
    ELSE LET e == event.relationship_impact[k]
         IN  IF ~e.match THEN ApplyRelations(rels, event, k + 1)
             ELSE LET key == RelationKey(e.charA, e.charB)
                      r0 == IF key \in DOMAIN rels THEN rels[key]
                            ELSE NewRelationship(key[1], key[2])
                      r1 == IF e.impact.kind = "object"
                            THEN applyStructuredImpact(r0, e.impact)
                            ELSE applyLegacyImpact(r0, e.impact.text)
                      messageId == IF Len(event.message_ids) > 0
                                   THEN Some(MaxOf(event.message_ids)) ELSE None
                      r2 == [r1 EXCEPT
                               !.history = Append(@,
                                   [event_id |-> event.id, impact |-> e.impact,
                                    message_id |-> messageId,
                                    direction |-> <<e.charA, e.charB>>]),
                               !.last_updated_message_id =
                                   IF IsSome(messageId) THEN messageId ELSE @]
                  IN  ApplyRelations(
                          [x \in (DOMAIN rels) \cup {key} |->
                              IF x = key THEN r2 ELSE rels[x]],
                          event, k + 1)

RECURSIVE updateRelationshipsFromEvents(_, _)
updateRelationshipsFromEvents(events, rels) ==
    IF Len(events) = 0 THEN rels
    ELSE updateRelationshipsFromEvents(Tail(events),
             ApplyRelations(rels, Head(events), 1))

\* --------------------------------------------------- systems/secrets.js
filterMemoriesByKnowledgeNoSecrets(mems, characterName) ==
    IF ~IsSome(characterName) THEN mems
    ELSE SelectSeq(mems, LAMBDA memory : ~memory.is_secret)

filterMemoriesByKnowledgeAlways(mems, characterName) ==
    SelectSeq(mems, LAMBDA memory :
        IF ~memory.is_secret THEN TRUE
        ELSE IsSome(memory.known_by) /\ IsSome(characterName)
             /\ Includes(memory.known_by[1], characterName[1]))

\* filterMemoriesByKnowledge(memories, characterName); characterName is
\* None for null.
filterMemoriesByKnowledge(mems, characterName) ==
    IF ~IsSome(characterName) THEN mems
    ELSE SelectSeq(mems, LAMBDA memory :
            IF ~memory.is_secret THEN TRUE
            ELSE IsSome(memory.known_by)
                 /\ Includes(memory.known_by[1], characterName[1]))

\* markMemoryAsSecret(memoryId, knownBy): the memories after the call; they
\* are unchanged when no memory has the id.
markMemoryAsSecret(mems, memoryId, knownBy) ==
    [k \in 1..Len(mems) |->
        IF mems[k].id = memoryId
        THEN [mems[k] EXCEPT !.is_secret = TRUE, !.known_by = Some(knownBy)]
        ELSE mems[k]]

unmarkMemoryAsSecretKeepKnownBy(mems, memoryId) ==
    [k \in 1..Len(mems) |->
        IF mems[k].id = memoryId
        THEN [mems[k] EXCEPT !.is_secret = FALSE]
        ELSE mems[k]]

\* unmarkMemoryAsSecret(memoryId)
unmarkMemoryAsSecret(mems, memoryId) ==
    [k \in 1..Len(mems) |->
        IF mems[k].id = memoryId
        THEN [mems[k] EXCEPT !.is_secret = FALSE, !.known_by = None]
        ELSE mems[k]]

\* ------------------------------------------------ goals, skills, locations
\* A text is a sequence of characters.
UpperCase ==
    <<"A", "B", "C", "D", "E", "F", "G", "H", "I", "J", "K", "L", "M",
      "N", "O", "P", "Q", "R", "S", "T", "U", "V", "W", "X", "Y", "Z">>
LowerCase ==
    <<"a", "b", "c", "d", "e", "f", "g", "h", "i", "j", "k", "l", "m",
      "n", "o", "p", "q", "r", "s", "t", "u", "v", "w", "x", "y", "z">>
Digits == {"0", "1", "2", "3", "4", "5", "6", "7", "8", "9"}
Whitespace == {" ", "\t", "\n"}

toLowerCaseNone(str) == str

\* String.prototype.toLowerCase
toLowerCase(str) ==
    [k \in 1..Len(str) |->
        IF \E i \in 1..Len(UpperCase) : UpperCase[i] = str[k]
        THEN LowerCase[CHOOSE i \in 1..Len(UpperCase) : UpperCase[i] = str[k]]
        ELSE str[k]]

\* String.prototype.trim
RECURSIVE trim(_)
trim(str) ==
    IF str = <<>> THEN str
    ELSE IF Head(str) \in Whitespace THEN trim(Tail(str))
    ELSE IF str[Len(str)] \in Whitespace THEN trim(SubSeq(str, 1, Len(str) - 1))
    ELSE str

\* replace(/\s+/g, '_')
RECURSIVE ReplaceWhitespaceRuns(_)
ReplaceWhitespaceRuns(str) ==
    IF str = <<>> THEN str
    ELSE IF Head(str) \in Whitespace
         THEN IF Len(str) > 1 /\ str[2] \in Whitespace
              THEN ReplaceWhitespaceRuns(Tail(str))
              ELSE <<"_">> \o ReplaceWhitespaceRuns(Tail(str))
         ELSE <<Head(str)>> \o ReplaceWhitespaceRuns(Tail(str))

\* name.toLowerCase().trim().replace(/[^a-z0-9\s]/g, '').replace(/\s+/g, '_')
normalizeLocationName(name) ==
    ReplaceWhitespaceRuns(
        SelectSeq(trim(toLowerCase(name)),
                  LAMBDA c : \/ c \in SeqToSet(LowerCase)
                             \/ c \in Digits
                             \/ c \in Whitespace))

GoalStatus == {"active", "completed", "abandoned", "failed", "on_hold"}

NoGoals == [charName \in {} |-> <<>>]
NoSkills == [charName \in {} |-> <<>>]
NoLocations == [key \in {} |-> <<>>]

NoSecrets == [id \in {} |-> <<>>]

NoStores ==
    /\ goals = NoGoals
    /\ skills = NoSkills
    /\ locations = NoLocations
    /\ secrets = NoSecrets

\* The first conversation is active and no timer is pending.
NoHost == activeChat = 1 /\ scheduledIn = <<>>

\* The list of a character in a store, created empty when absent.
EnsureList(store, charName) ==
    IF charName \in DOMAIN store THEN store ELSE store @@ (charName :> <<>>)

existingGoalActiveOnly(list, text) ==
    \E k \in 1..Len(list) :
        /\ list[k].status = "active"
        /\ toLowerCase(list[k].goal) = toLowerCase(text)

\* list.find(g => g.goal.toLowerCase() === event.goal.goal.toLowerCase())
existingGoal(list, text) ==
    \E k \in 1..Len(list) : toLowerCase(list[k].goal) = toLowerCase(text)

\* One iteration of the loop of processGoalsFromEvents.  The random goal id
\* is the rank of the goal in the list of its character.
ProcessGoal(gs, event) ==
    IF IsSome(event.goal) /\ event.goal[1].character # "" /\ event.goal[1].goal # <<>>
    THEN LET charName == event.goal[1].character
             g1 == EnsureList(gs, charName)
         IN  IF existingGoal(g1[charName], event.goal[1].goal) THEN g1
             ELSE [g1 EXCEPT ![charName] =
                      Append(@, [id |-> Len(g1[charName]) + 1,
                                 goal |-> event.goal[1].goal,
                                 priority |-> "medium",
                                 status |-> "active",
                                 related_memory_ids |-> <<event.id>>,
                                 source_memory_id |-> event.id])]
    ELSE gs

RECURSIVE processGoalsFromEvents(_, _)
processGoalsFromEvents(events, gs) ==
    IF Len(events) = 0 THEN gs
    ELSE processGoalsFromEvents(Tail(events), ProcessGoal(gs, Head(events)))

\* updateGoalStatus(characterName, goalId, newStatus); the goals unchanged
\* when it returns false.
updateGoalStatus(gs, characterName, goalId, newStatus) ==
    IF characterName \notin DOMAIN gs THEN gs
    ELSE IF newStatus \notin GoalStatus THEN gs
    ELSE IF ~\E k \in 1..Len(gs[characterName]) : gs[characterName][k].id = goalId
         THEN gs
    ELSE LET k == CHOOSE i \in 1..Len(gs[characterName]) :
                      /\ gs[characterName][i].id = goalId
                      /\ \A j \in 1..(i - 1) : gs[characterName][j].id # goalId
         IN  [gs EXCEPT ![characterName][k].status = newStatus]

\* The index of the first skill of the list with that name ignoring case, 0
\* when there is none.
existingSkill(list, text) ==
    IF \E k \in 1..Len(list) : toLowerCase(list[k].skill) = toLowerCase(text)
    THEN CHOOSE k \in 1..Len(list) :
            /\ toLowerCase(list[k].skill) = toLowerCase(text)
            /\ \A j \in 1..(k - 1) : toLowerCase(list[j].skill) # toLowerCase(text)
    ELSE 0

\* One iteration of the loop of processSkillsFromEvents.  The random skill id
\* is the rank of the skill in the list of its character.
ProcessSkill(sk, event) ==
    IF IsSome(event.skill) /\ event.skill[1].character # "" /\ event.skill[1].skill # <<>>
    THEN LET charName == event.skill[1].character
             s1 == EnsureList(sk, charName)
             k == existingSkill(s1[charName], event.skill[1].skill)
         IN  IF k # 0
             THEN [s1 EXCEPT
                     ![charName][k].related_memory_ids =
                         IF Includes(@, event.id) THEN @ ELSE Append(@, event.id),
                     ![charName][k].use_count = @ + 1]
             ELSE [s1 EXCEPT ![charName] =
                      Append(@, [id |-> Len(s1[charName]) + 1,
                                 skill |-> event.skill[1].skill,
                                 proficiency |-> "novice",
                                 use_count |-> 1,
                                 source_memory_id |-> Some(event.id),
                                 related_memory_ids |-> <<event.id>>])]
    ELSE sk

RECURSIVE processSkillsFromEvents(_, _)
processSkillsFromEvents(events, sk) ==
    IF Len(events) = 0 THEN sk
    ELSE processSkillsFromEvents(Tail(events), ProcessSkill(sk, Head(events)))

\* Object.values(SkillProficiency), lowest first.
SkillProficiency ==
    <<"novice", "beginner", "competent", "skilled", "expert", "master">>

\* levels.indexOf(proficiency), 0-based, -1 when it is no level.
indexOf(levels, proficiency) ==
    IF \E i \in 1..Len(levels) : levels[i] = proficiency
    THEN (CHOOSE i \in 1..Len(levels) :
             /\ levels[i] = proficiency
             /\ \A j \in 1..(i - 1) : levels[j] # proficiency) - 1
    ELSE -1

getSkillExact(sk, characterName, skillName) ==
    LET list == IF characterName \in DOMAIN sk THEN sk[characterName] ELSE <<>>
    IN  IF \E k \in 1..Len(list) : list[k].skill = skillName
        THEN CHOOSE k \in 1..Len(list) :
                /\ list[k].skill = skillName
                /\ \A j \in 1..(k - 1) : list[j].skill # skillName
        ELSE 0

\* getSkill(characterName, skillName): the index of the first skill of the
\* character with that name ignoring case, 0 for null.
getSkill(sk, characterName, skillName) ==
    LET list == IF characterName \in DOMAIN sk THEN sk[characterName] ELSE <<>>
        normalized == toLowerCase(skillName)
    IN  IF \E k \in 1..Len(list) : toLowerCase(list[k].skill) = normalized
        THEN CHOOSE k \in 1..Len(list) :
                /\ toLowerCase(list[k].skill) = normalized
                /\ \A j \in 1..(k - 1) : toLowerCase(list[j].skill) # normalized
        ELSE 0

\* createSkill(characterName, skillData) with the skill name and an optional
\* proficiency as skillData; returned is the index of the skill it returns,
\* existing tells that it was found and not created.
createSkill(sk, characterName, skillName, proficiency) ==
    LET s1 == EnsureList(sk, characterName)
    IN  IF getSkill(s1, characterName, skillName) # 0
        THEN [existing |-> TRUE, skills |-> s1,
              returned |-> getSkill(s1, characterName, skillName)]
        ELSE [existing |-> FALSE,
              returned |-> Len(s1[characterName]) + 1,
              skills |->
                 [s1 EXCEPT ![characterName] =
                     Append(@, [id |-> Len(s1[characterName]) + 1,
                                skill |-> skillName,
                                proficiency |-> OrElse(proficiency, Some("novice"))[1],
                                use_count |-> 0,
                                source_memory_id |-> None,
                                related_memory_ids |-> <<>>])]]

\* The index of the first skill of the character with that id, 0 when the
\* character or the skill is unknown.
FindSkill(sk, characterName, skillId) ==
    IF characterName \notin DOMAIN sk THEN 0
    ELSE IF \E k \in 1..Len(sk[characterName]) : sk[characterName][k].id = skillId
         THEN CHOOSE k \in 1..Len(sk[characterName]) :
                 /\ sk[characterName][k].id = skillId
                 /\ \A j \in 1..(k - 1) : sk[characterName][j].id # skillId
         ELSE 0

\* updateSkillProficiency(characterName, skillId, newProficiency)
updateSkillProficiency(sk, characterName, skillId, newProficiency) ==
    LET k == FindSkill(sk, characterName, skillId)
    IN  IF characterName \notin DOMAIN sk THEN [ok |-> FALSE, skills |-> sk]
        ELSE IF indexOf(SkillProficiency, newProficiency) = -1
             THEN [ok |-> FALSE, skills |-> sk]
        ELSE IF k = 0 THEN [ok |-> FALSE, skills |-> sk]
        ELSE [ok |-> TRUE,
              skills |-> [sk EXCEPT ![characterName][k].proficiency = newProficiency]]

improveSkillSame(sk, characterName, skillId) ==
    LET k == FindSkill(sk, characterName, skillId)
    IN  IF k = 0 THEN [ok |-> FALSE, skills |-> sk]
        ELSE updateSkillProficiency(sk, characterName, skillId,
                                    sk[characterName][k].proficiency)

\* improveSkill(characterName, skillId)
improveSkill(sk, characterName, skillId) ==
    LET k == FindSkill(sk, characterName, skillId)
    IN  IF k = 0 THEN [ok |-> FALSE, skills |-> sk]
        ELSE LET levels == SkillProficiency
                 currentIndex == indexOf(levels, sk[characterName][k].proficiency)
             IN  IF currentIndex >= Len(levels) - 1
                 THEN [ok |-> FALSE, skills |-> sk]
                 ELSE updateSkillProficiency(sk, characterName, skillId,
                                             levels[currentIndex + 2])

\* getLocation(name): the key of the location found, directly or by alias.
getLocation(locs, name) ==
    LET normalized == normalizeLocationName(name)
        byAlias == {key \in DOMAIN locs :
                      \E i \in 1..Len(locs[key].aliases) :
                         normalizeLocationName(locs[key].aliases[i]) = normalized}
    IN  IF normalized \in DOMAIN locs THEN Some(normalized)
        ELSE IF byAlias # {} THEN Some(CHOOSE key \in byAlias : TRUE)
        ELSE None

\* upsertLocation(name) without options.
upsertLocation(locs, name) ==
    LET normalized == normalizeLocationName(name)
    IN  IF normalized \in DOMAIN locs
        THEN [locs EXCEPT ![normalized].visit_count = @ + 1]
        ELSE locs @@ (normalized :>
                        [id |-> normalized, name |-> trim(name), aliases |-> <<>>,
                         visit_count |-> 1, memory_ids |-> <<>>])

\* upsertLocation(name, {alias}): an existing location takes the alias unless
\* it has it; a location that is created ignores options.alias.
upsertLocationAlias(locs, name, alias) ==
    LET normalized == normalizeLocationName(name)
        l1 == upsertLocation(locs, name)
    IN  IF normalized \in DOMAIN locs /\ ~Includes(locs[normalized].aliases, alias)
        THEN [l1 EXCEPT ![normalized].aliases = Append(@, alias)]
        ELSE l1

\* linkMemoryToLocation(memoryId, locationName); threw when the location was
\* found by alias only, so that data[LOCATIONS_KEY][normalized] is undefined.
linkMemoryToLocation(locs, memoryId, locationName) ==
    LET l1 == IF IsSome(getLocation(locs, locationName)) THEN locs
              ELSE upsertLocation(locs, locationName)
        normalized == normalizeLocationName(locationName)
    IN  IF normalized \notin DOMAIN l1 THEN [threw |-> TRUE, locations |-> l1]
        ELSE [threw |-> FALSE,
              locations |->
                 IF Includes(l1[normalized].memory_ids, memoryId) THEN l1
                 ELSE [l1 EXCEPT ![normalized].memory_ids = Append(@, memoryId)]]

\* processLocationsFromEvents(events), through processMemoryLocation; an
\* exception ends the loop.
RECURSIVE processLocationsFromEvents(_, _)
processLocationsFromEvents(events, locs) ==
    IF Len(events) = 0 THEN [threw |-> FALSE, locations |-> locs]
    ELSE IF IsSome(Head(events).location)
         THEN LET r == linkMemoryToLocation(locs, Head(events).id,
                                            Head(events).location[1])
              IN  IF r.threw THEN r
                  ELSE processLocationsFromEvents(Tail(events), r.locations)
         ELSE processLocationsFromEvents(Tail(events), locs)

\* ------------------------------------------- branch reconciliation: pruning
IsStaleStrict(memory, chatLength) == MinOf(memory.message_ids) > chatLength

IsStaleAny(memory, chatLength) == MaxOf(memory.message_ids) >= chatLength

\* A memory is stale when its minimum referenced message index >= chatLength.
IsStale(memory, chatLength) == MinOf(memory.message_ids) >= chatLength

StaleIds(mems, chatLength) ==
    {mems[k].id : k \in {j \in 1..Len(mems) : IsStale(mems[j], chatLength)}}

\* Only the first stale memory goes.
RemoveFirstStale(mems, chatLength) ==
    LET stale == {j \in 1..Len(mems) : IsStale(mems[j], chatLength)}
    IN  IF stale = {} THEN mems
        ELSE LET f == CHOOSE j \in stale : \A o \in stale : j <= o
             IN  SubSeq(mems, 1, f - 1) \o SubSeq(mems, f + 1, Len(mems))

RemoveStale(mems, chatLength) ==
    SelectSeq(mems, LAMBDA memory : ~IsStale(memory, chatLength))

KeepDangling(ids, removed) == ids

\* The ids of a known_events list that are not among the removed memories.
DropDangling(ids, removed) == SelectSeq(ids, LAMBDA id : id \notin removed)

DropDanglingHistory(history, removed) ==
    SelectSeq(history, LAMBDA h : h.event_id \notin removed)

\* Pruning for the active branch: the vault after it and the number of
\* memories pruned.
pruneForBranch(mems, chars, rels, chatLength, s) ==
    LET removed == StaleIds(mems, chatLength)
    IN  IF ~s.branchAwarePruning \/ removed = {}
        THEN [memories |-> mems, characters |-> chars, relationships |-> rels,
              prunedCount |-> 0]
        ELSE [memories |-> RemoveStale(mems, chatLength),
              characters |->
                 [n \in DOMAIN chars |->
                     [chars[n] EXCEPT !.known_events = DropDangling(@, removed)]],
              relationships |->
                 [key \in DOMAIN rels |->
                     [rels[key] EXCEPT !.history = DropDanglingHistory(@, removed)]],
              prunedCount |-> Cardinality(removed)]

\* ------------------------------------------------------------- retrieval
\* The configured weights, thresholds and decay of the relevance scorer.
RetrievalConfig ==
    [semanticWeight |-> 2, keywordWeight |-> 1, semanticThreshold |-> 0,
     keywordMin |-> 1, decayScale |-> 4]

\* Recency: decreasing in the distance to the latest referenced message.
Decay(distance) == RetrievalConfig.decayScale \div (1 + Max(0, distance))

\* score(memory, queryContext); q.sem and q.kw give the semantic similarity
\* and the keyword overlap of the query with each memory (by position).
Score(mems, k, q) ==
    RetrievalConfig.semanticWeight * q.sem[k]
    + RetrievalConfig.keywordWeight * q.kw[k]
    + (IF mems[k].pinned THEN Decay(0)
       ELSE Decay(q.currentIndex - MaxOf(mems[k].message_ids)))
    + mems[k].importance

PassesFilterNoPinBypass(mems, k, q) ==
    \/ q.sem[k] > RetrievalConfig.semanticThreshold
    \/ q.kw[k] >= RetrievalConfig.keywordMin

\* The semantic-threshold filter: either signal admits a candidate, a pinned
\* memory bypasses it.
PassesFilter(mems, k, q) ==
    \/ mems[k].pinned
    \/ q.sem[k] > RetrievalConfig.semanticThreshold
    \/ q.kw[k] >= RetrievalConfig.keywordMin

\* Ranking: score descending, ties by sequence descending; score[k] is the
\* score of mems[k].
Before(mems, score, i, j) ==
    \/ score[i] > score[j]
    \/ /\ score[i] = score[j]
       /\ \/ mems[i].sequence > mems[j].sequence
          \/ mems[i].sequence = mems[j].sequence /\ i < j

RECURSIVE RankPositions(_, _, _)
RankPositions(mems, score, todo) ==
    IF todo = {} THEN <<>>
    ELSE LET best == CHOOSE i \in todo :
                        \A j \in todo \ {i} : Before(mems, score, i, j)
         IN  <<best>> \o RankPositions(mems, score, todo \ {best})

\* Token-budget truncation: candidates are taken in ranked order until the
\* budget is exhausted.
RECURSIVE TakeWithinBudget(_, _)
TakeWithinBudget(cands, budget) ==
    IF Len(cands) = 0 \/ Head(cands).summary > budget THEN <<>>
    ELSE <<Head(cands)>> \o TakeWithinBudget(Tail(cands), budget - Head(cands).summary)

RECURSIVE TokensOf(_)
TokensOf(cands) ==
    IF Len(cands) = 0 THEN 0 ELSE Head(cands).summary + TokensOf(Tail(cands))

PinnedFirstWithinBudget(pinnedMems, rest, budget) ==
    TakeWithinBudget(pinnedMems \o rest, budget)

\* Pinned memories are added first and always; the budget is spent on the
\* remainder.
PinnedFirst(pinnedMems, rest, budget) ==
    pinnedMems \o TakeWithinBudget(rest, budget - TokensOf(pinnedMems))

\* retrieve(conversationState, povCharacter) without the optional
\* adjudication step: the memories to inject, in order.
retrieve(mems, pov, q) ==
    LET score == [k \in 1..Len(mems) |-> Score(mems, k, q)]
        order == RankPositions(mems, score, 1..Len(mems))
        passing == SelectSeq(order, LAMBDA k : PassesFilter(mems, k, q))
        ranked == [r \in 1..Len(passing) |-> mems[passing[r]]]
        known == filterMemoriesByKnowledge(ranked, pov)
    IN  PinnedFirst(SelectSeq(known, LAMBDA m : m.pinned),
                    SelectSeq(known, LAMBDA m : ~m.pinned), q.budget)

\* ------------------------------------------------------------------ state
SettingsSet ==
    [autoHideEnabled : BOOLEAN, autoHideThreshold : 0..MaxThreshold,
     branchAwarePruning : BOOLEAN]

NoCharacters == [n \in {} |-> NewCharacter(n)]
NoRelationships == [key \in {} |-> NewRelationship(key[1], key[2])]

InitVault ==
    /\ chat = <<>>
    /\ memories = <<>>
    /\ characters = NoCharacters
    /\ relationships = NoRelationships
    /\ timers = 0
    /\ nextId = 1
    /\ lastOp = "init"
    /\ pre = <<>>
    /\ ret = NoRet
    /\ retrieved = <<>>
    /\ NoStores
    /\ NoHost

Init ==
    /\ InitVault
    /\ settings \in {s \in SettingsSet : s.branchAwarePruning}

\* ---------------------------------------------------------- host actions
\* The host appends a message to the chat (message sent or received).
HostAppend(m) ==
    /\ Len(chat) < MaxChat
    /\ chat' = Append(chat, m)
    /\ lastOp' = "host"
    /\ pre' = <<>>
    /\ ret' = NoRet
    /\ retrieved' = <<>>
    /\ UNCHANGED stores
    /\ UNCHANGED host
    /\ UNCHANGED <<memories, characters, relationships, settings, timers,
                   nextId>>

\* The user hides a visible message through the host (the host sets is_system).
HostHide(idx) ==
    /\ idx + 1 \in 1..Len(chat)
    /\ ~chat[idx + 1].is_system
    /\ chat' = [chat EXCEPT ![idx + 1].is_system = TRUE, ![idx + 1].hider = "host"]
    /\ lastOp' = "host"
    /\ pre' = <<>>
    /\ ret' = NoRet
    /\ retrieved' = <<>>
    /\ UNCHANGED stores
    /\ UNCHANGED host
    /\ UNCHANGED <<memories, characters, relationships, settings, timers,
                   nextId>>

\* The host switches to a branch made from an earlier message: the active
\* chat is the first len messages; the vault travels with the branch.
BranchSwitch(len) ==
    /\ len \in 0..(Len(chat) - 1)
    /\ chat' = SubSeq(chat, 1, len)
    /\ lastOp' = "host"
    /\ pre' = <<>>
    /\ ret' = NoRet
    /\ retrieved' = <<>>
    /\ UNCHANGED stores
    /\ UNCHANGED host
    /\ UNCHANGED <<memories, characters, relationships, settings, timers,
                   nextId>>

\* ------------------------------------------------------ program actions
\* The messages a..b are extracted into one event, which is stored as a
\* memory and folded into the character states and the relationships.
Extract(a, b, event) ==
    /\ nextId <= MaxMemories
    /\ a \in 0..(Len(chat) - 1)
    /\ b \in a..(Len(chat) - 1)
    /\ LET events == <<ParseEvent(event, 0, nextId, RangeSeq(a, b))>>
       IN  /\ memories' = memories \o events
           /\ characters' = updateCharacterStatesFromEvents(events, characters)
           /\ relationships' = updateRelationshipsFromEvents(events, relationships)
    /\ nextId' = nextId + 1
    /\ lastOp' = "extract"
    /\ pre' = <<>>
    /\ ret' = NoRet
    /\ retrieved' = <<>>
    /\ UNCHANGED stores
    /\ UNCHANGED host
    /\ UNCHANGED <<chat, settings, timers>>

AutoHide ==
    /\ chat' = autoHideOldMessages(chat, memories, settings)
    /\ lastOp' = "autoHide"
    /\ pre' = chat
    /\ ret' = NoRet
    /\ retrieved' = <<>>
    /\ UNCHANGED stores
    /\ UNCHANGED host
    /\ UNCHANGED <<memories, characters, relationships, settings, timers,
                   nextId>>

Unhide ==
    /\ chat' = unhideMessagesForBranch(chat).chat
    /\ ret' = [NoRet EXCEPT
                 !.unhiddenCount = unhideMessagesForBranch(chat).unhiddenCount,
                 !.rehiddenCount = unhideMessagesForBranch(chat).rehiddenCount]
    /\ lastOp' = "unhide"
    /\ retrieved' = <<>>
    /\ pre' = chat
    /\ UNCHANGED stores
    /\ UNCHANGED host
    /\ UNCHANGED <<memories, characters, relationships, settings, timers,
                   nextId>>

\* scheduleAutoHideAfterBranchSwitch: arms a 2500 ms timer when enabled.
ScheduleAutoHide ==
    /\ timers < MaxTimers
    /\ timers' = IF settings.autoHideEnabled THEN timers + 1 ELSE timers
    /\ scheduledIn' = IF settings.autoHideEnabled
                      THEN Append(scheduledIn, activeChat) ELSE scheduledIn
    /\ lastOp' = "schedule"
    /\ pre' = <<>>
    /\ ret' = NoRet
    /\ retrieved' = <<>>
    /\ UNCHANGED stores
    /\ UNCHANGED activeChat
    /\ UNCHANGED <<chat, memories, characters, relationships, settings,
                   nextId>>

\* The timer callback: await autoHideOldMessages().
TimerFire ==
    /\ timers > 0
    /\ timers' = timers - 1
    /\ scheduledIn' = Tail(scheduledIn)
    /\ chat' = autoHideOldMessages(chat, memories, settings)
    /\ lastOp' = "autoHide"
    /\ pre' = chat
    /\ ret' = NoRet
    /\ retrieved' = <<>>
    /\ UNCHANGED stores
    /\ UNCHANGED activeChat
    /\ UNCHANGED <<memories, characters, relationships, settings, nextId>>

\* Branch reconciliation prunes the vault for the length of the active chat.
Prune ==
    /\ LET r == pruneForBranch(memories, characters, relationships,
                               Len(chat), settings)
       IN  /\ memories' = r.memories
           /\ characters' = r.characters
           /\ relationships' = r.relationships
           /\ ret' = [NoRet EXCEPT !.prunedCount = r.prunedCount]
    /\ lastOp' = "prune"
    /\ retrieved' = <<>>
    /\ pre' = [memories |-> memories, characters |-> characters,
               relationships |-> relationships, chatLength |-> Len(chat)]
    /\ UNCHANGED stores
    /\ UNCHANGED host
    /\ UNCHANGED <<chat, settings, timers, nextId>>

\* The pin button of the memory browser toggles memory.pinned.
TogglePin(id) ==
    /\ \E k \in 1..Len(memories) : memories[k].id = id
    /\ memories' = [k \in 1..Len(memories) |->
                      IF memories[k].id = id
                      THEN [memories[k] EXCEPT !.pinned = ~@]
                      ELSE memories[k]]
    /\ lastOp' = "pin"
    /\ pre' = <<>>
    /\ ret' = NoRet
    /\ retrieved' = <<>>
    /\ UNCHANGED stores
    /\ UNCHANGED host
    /\ UNCHANGED <<chat, characters, relationships, settings, timers, nextId>>

\* Retrieval before a generation, for a POV character and a query; retrieved
\* is the list handed to the prompt of that generation.
Retrieve(pov, q) ==
    /\ lastOp # "retrieve"
    /\ retrieved' = retrieve(memories, pov, q)
    /\ lastOp' = "retrieve"
    /\ pre' = [pov |-> pov, query |-> q]
    /\ ret' = NoRet
    /\ UNCHANGED stores
    /\ UNCHANGED host
    /\ UNCHANGED <<chat, memories, characters, relationships, settings,
                   timers, nextId>>

\* The host runs the generation the retrieval was made for.
HostGenerate ==
    /\ lastOp = "retrieve"
    /\ lastOp' = "host"
    /\ pre' = <<>>
    /\ ret' = NoRet
    /\ retrieved' = <<>>
    /\ UNCHANGED stores
    /\ UNCHANGED host
    /\ UNCHANGED <<chat, memories, characters, relationships, settings,
                   timers, nextId>>

\* ------------------------------------- auto-hide and branch reconciliation
\* The extraction of the messages a..b into a memory that carries no
\* witnesses and no impacts.
ExtractBatch(a, b) ==
    /\ nextId <= MaxExtracted
    /\ Extract(a, b, EmptyEvent)

Next ==
    \/ \E m \in MsgKinds : HostAppend(m)
    \/ \E idx \in 0..(MaxChat - 1) : HostHide(idx)
    \/ \E len \in 0..MaxChat : BranchSwitch(len)
    \/ \E a \in 0..MaxChat, b \in 0..MaxChat : ExtractBatch(a, b)
    \/ AutoHide
    \/ Unhide
    \/ ScheduleAutoHide
    \/ TimerFire
    \/ Prune

Spec == Init /\ [][Next]_vars

\* ------------------------------------------ pruning with character states
\* The events of this specification: witnesses, an emotional impact and a
\* relationship impact in either direction.
PruneEvents ==
    {EmptyEvent,
     [EmptyEvent EXCEPT !.witnesses = Some(<<"Alice", "Bob">>)],
     [EmptyEvent EXCEPT !.characters_involved = Some(<<"Bob">>),
                        !.emotional_impact = <<<<"Bob", "happy">>>>,
                        !.relationship_impact =
                            <<[match |-> TRUE, charA |-> "Bob", charB |-> "Alice",
                               impact |-> StructuredImpact(
                                   [NoDeltas EXCEPT !["trust"] = Some(1)])]>>],
     [EmptyEvent EXCEPT !.witnesses = Some(<<"Alice">>),
                        !.relationship_impact =
                            <<[match |-> TRUE, charA |-> "Alice", charB |-> "Bob",
                               impact |-> LegacyImpact({"trust", "deepen"})]>>]}

InitPrune ==
    /\ InitVault
    /\ settings \in {s \in SettingsSet :
                        ~s.autoHideEnabled /\ s.autoHideThreshold = 0}

NextPrune ==
    \/ HostAppend(RegularMessage)
    \/ \E len \in 0..MaxChat : BranchSwitch(len)
    \/ \E a \in 0..MaxChat, b \in 0..MaxChat, event \in PruneEvents :
          Extract(a, b, event)
    \/ Prune

SpecPrune == InitPrune /\ [][NextPrune]_vars

\* -------------------------------------------------------------- retrieval
RetrieveEvents ==
    {[EmptyEvent EXCEPT !.importance = Some(1)],
     [EmptyEvent EXCEPT !.importance = Some(5), !.is_secret = TRUE,
                        !.known_by = Some(<<"Alice">>)]}

\* The signals of a query for one memory: none, semantic only, keyword only.
Signals == {<<0, 0>>, <<1, 0>>, <<0, 1>>}

Queries(n) ==
    {[sem |-> [k \in 1..n |-> sig[k][1]], kw |-> [k \in 1..n |-> sig[k][2]],
      budget |-> budget, currentIndex |-> Len(chat)] :
        sig \in [1..n -> Signals], budget \in 0..MaxBudget}

TwoMessages == <<RegularMessage, RegularMessage>>

InitRetrieve ==
    /\ chat = TwoMessages
    /\ memories = <<>>
    /\ characters = NoCharacters
    /\ relationships = NoRelationships
    /\ settings = [autoHideEnabled |-> FALSE, autoHideThreshold |-> 0,
                   branchAwarePruning |-> FALSE]
    /\ timers = 0
    /\ nextId = 1
    /\ lastOp = "init"
    /\ pre = <<>>
    /\ ret = NoRet
    /\ retrieved = <<>>
    /\ NoStores
    /\ NoHost

NextRetrieve ==
    \/ \E a \in 0..(Len(TwoMessages) - 1), event \in RetrieveEvents : Extract(a, a, event)
    \/ \E id \in 1..MaxMemories : TogglePin(id)
    \/ \E pov \in {None} \cup {Some(n) : n \in Names}, q \in Queries(Len(memories)) :
          Retrieve(pov, q)
    \/ HostGenerate

SpecRetrieve == InitRetrieve /\ [][NextRetrieve]_vars

\* ------------------------------------------------- extraction and secrets
\* The messages the scheduler can put in a batch: those no memory references.
Unextracted(c, mems) ==
    {idx \in 0..(Len(c) - 1) : idx \notin getExtractedMessageIds(mems)}

\* The ids of a batch of messages, in chat order.
RECURSIVE SortedSeq(_)
SortedSeq(S) ==
    IF S = {} THEN <<>>
    ELSE LET m == CHOOSE x \in S : \A y \in S : x <= y
         IN  <<m>> \o SortedSeq(S \ {m})

\* One extraction run over the batch of messages ids: the output of the model
\* is parsed, the events are stored as memories and folded into the character
\* states and the relationships.  A parse that throws stores nothing.
ExtractEvents(ids, payload, cap) ==
    /\ ids # {}
    /\ ids \subseteq Unextracted(chat, memories)
    /\ nextId + Len(payload.elements) - 1 <= cap
    /\ LET r == parseExtractionResult(payload, SortedSeq(ids), nextId)
       IN  /\ memories' = memories \o r.events
           /\ characters' = updateCharacterStatesFromEvents(r.events, characters)
           /\ relationships' = updateRelationshipsFromEvents(r.events, relationships)
           /\ nextId' = nextId + Len(r.events)
           /\ lastOp' = IF r.threw THEN "extractThrew" ELSE "extractEvents"
    /\ pre' = [payload |-> payload, messageIds |-> SortedSeq(ids),
               memories |-> memories, relationships |-> relationships,
               characters |-> characters]
    /\ ret' = NoRet
    /\ retrieved' = <<>>
    /\ UNCHANGED stores
    /\ UNCHANGED host
    /\ UNCHANGED <<chat, settings, timers>>

MarkMemoryAsSecret(memoryId, knownBy) ==
    /\ memories' = markMemoryAsSecret(memories, memoryId, knownBy)
    /\ lastOp' = "mark"
    /\ pre' = <<>>
    /\ ret' = NoRet
    /\ retrieved' = <<>>
    /\ UNCHANGED stores
    /\ UNCHANGED host
    /\ UNCHANGED <<chat, characters, relationships, settings, timers, nextId>>

UnmarkMemoryAsSecret(memoryId) ==
    /\ memories' = unmarkMemoryAsSecret(memories, memoryId)
    /\ lastOp' = "unmark"
    /\ pre' = <<>>
    /\ ret' = NoRet
    /\ retrieved' = <<>>
    /\ UNCHANGED stores
    /\ UNCHANGED host
    /\ UNCHANGED <<chat, characters, relationships, settings, timers, nextId>>

\* A call of filterMemoriesByKnowledge on the stored memories; retrieved is
\* the list it returns.
FilterByKnowledge(pov) ==
    /\ retrieved' = filterMemoriesByKnowledge(memories, pov)
    /\ lastOp' = "filter"
    /\ pre' = [pov |-> pov]
    /\ ret' = NoRet
    /\ UNCHANGED stores
    /\ UNCHANGED host
    /\ UNCHANGED <<chat, memories, characters, relationships, settings,
                   timers, nextId>>

\* The elements of the extraction outputs of this specification: importance
\* absent, zero, negative and above 5; secrets with and without a known_by
\* list; a null, a number and an object without a summary.
ParseRaws ==
    {RawObject(EmptyEvent),
     RawObject([EmptyEvent EXCEPT !.importance = Some(0), !.is_secret = TRUE,
                                  !.known_by = Some(<<"Alice">>)]),
     RawObject([EmptyEvent EXCEPT !.importance = Some(-2), !.is_secret = TRUE,
                                  !.witnesses = Some(<<"Bob">>)]),
     RawObject([NoFields EXCEPT !.importance = Some(7),
                                !.known_by = Some(<<"Alice">>)]),
     RawNull,
     RawNumber}

Payloads(n) ==
    {Unparseable, SingleObject(RawObject(EmptyEvent))}
    \cup {ArrayOf(elements) : elements \in UNION {[1..m -> ParseRaws] : m \in 0..n}}

KnownByLists == {<<>>, <<"Bob">>}

InitParse ==
    /\ chat = TwoMessages
    /\ memories = <<>>
    /\ characters = NoCharacters
    /\ relationships = NoRelationships
    /\ timers = 0
    /\ nextId = 1
    /\ lastOp = "init"
    /\ pre = <<>>
    /\ ret = NoRet
    /\ retrieved = <<>>
    /\ NoStores
    /\ NoHost
    /\ settings = [autoHideEnabled |-> FALSE, autoHideThreshold |-> 0,
                   branchAwarePruning |-> FALSE]

NextParse ==
    \/ \E ids \in SUBSET Unextracted(chat, memories),
          payload \in Payloads(MaxParsed + 1 - nextId) :
          ExtractEvents(ids, payload, MaxParsed)
    \/ \E id \in 1..MaxParsed, knownBy \in KnownByLists :
          MarkMemoryAsSecret(id, knownBy)
    \/ \E id \in 1..MaxParsed : UnmarkMemoryAsSecret(id)
    \/ \E pov \in {None} \cup {Some(n) : n \in Names} : FilterByKnowledge(pov)

SpecParse == InitParse /\ [][NextParse]_vars

\* ------------------------------------------------------- relationships
\* One relationship_impact entry with key "charA->charB", and one whose key
\* does not match the pattern.
Entry(charA, charB, impact) ==
    [match |-> TRUE, charA |-> charA, charB |-> charB, impact |-> impact]
NoMatchEntry(impact) ==
    [match |-> FALSE, charA |-> "Alice", charB |-> "Alice", impact |-> impact]

Deltas(trust, tension, respect, fear, loyalty, familiarity) ==
    [NoDeltas EXCEPT !["trust"] = trust, !["tension"] = tension,
                     !["respect"] = respect, !["fear"] = fear,
                     !["loyalty"] = loyalty, !["familiarity"] = familiarity]

\* The relationship impacts of this specification, in both directions:
\* structured impacts with no, one and several deltas that reach 0 and 10,
\* legacy strings with no keyword, with "Trust deepens", with the keywords
\* that lower and that raise the dimensions, a key without "->", a string
\* with "betray" and "loyal", and an event with two entries.
RelationImpacts ==
    {<<Entry("Alice", "Bob", StructuredImpact(NoDeltas))>>,
     <<Entry("Bob", "Alice", StructuredImpact(
           Deltas(Some(1), None, None, None, None, None)))>>,
     <<Entry("Alice", "Bob", StructuredImpact(
           Deltas(Some(6), None, None, Some(11), None, Some(9))))>>,
     <<Entry("Bob", "Alice", StructuredImpact(
           Deltas(Some(-6), Some(-1), Some(-6), None, Some(-6), None)))>>,
     <<Entry("Alice", "Bob", LegacyImpact({}))>>,
     <<Entry("Bob", "Alice", LegacyImpact({"trust", "deepen"}))>>,
     <<Entry("Alice", "Bob", LegacyImpact(
           {"trust", "betray", "tension", "decreas", "respect", "lost", "comfort"}))>>,
     <<Entry("Bob", "Alice", LegacyImpact(
           {"trust", "tension", "respect", "increas", "attract", "fear", "loyal"}))>>,
     <<NoMatchEntry(LegacyImpact({"trust", "gain"}))>>,
     <<Entry("Alice", "Bob", LegacyImpact({"betray", "loyal"}))>>,
     <<Entry("Alice", "Bob", LegacyImpact({"fear"})),
       Entry("Bob", "Bob", StructuredImpact(
           Deltas(None, None, None, Some(-1), None, None)))>>}

RelationEvents ==
    {RawObject([EmptyEvent EXCEPT !.relationship_impact = impacts]) :
        impacts \in RelationImpacts}

RelationPayloads(n) ==
    {ArrayOf(elements) : elements \in UNION {[1..m -> RelationEvents] : m \in 1..n}}

InitRelations ==
    /\ chat = TwoMessages
    /\ memories = <<>>
    /\ characters = NoCharacters
    /\ relationships = NoRelationships
    /\ settings = [autoHideEnabled |-> FALSE, autoHideThreshold |-> 0,
                   branchAwarePruning |-> FALSE]
    /\ timers = 0
    /\ nextId = 1
    /\ lastOp = "init"
    /\ pre = <<>>
    /\ ret = NoRet
    /\ retrieved = <<>>
    /\ NoStores
    /\ NoHost

NextRelations ==
    \E ids \in SUBSET Unextracted(chat, memories),
       payload \in RelationPayloads(MaxImpacts + 1 - nextId) :
       ExtractEvents(ids, payload, MaxImpacts)

SpecRelations == InitRelations /\ [][NextRelations]_vars

\* ------------------------------------------------------ character states
\* updateCharacterStatesFromEvents called again with a stored event, right
\* after the extraction that stored it or an earlier one.
ReduceAgain(k) ==
    /\ lastOp = "extractEvents"
    /\ k \in 1..Len(memories)
    /\ characters' = updateCharacterStatesFromEvents(<<memories[k]>>, characters)
    /\ lastOp' = "reduceAgain"
    /\ pre' = [characters |-> characters, events |-> <<memories[k]>>]
    /\ ret' = NoRet
    /\ retrieved' = <<>>
    /\ UNCHANGED stores
    /\ UNCHANGED host
    /\ UNCHANGED <<chat, memories, relationships, settings, timers, nextId>>

\* The events of this specification: no emotional impact, one for Alice, one
\* for Alice and Bob; no witnesses, Alice listed twice, Bob and Alice.
CharacterRaws ==
    {RawObject([EmptyEvent EXCEPT !.emotional_impact = emotions,
                                  !.witnesses = witnesses]) :
        emotions \in {<<>>, <<<<"Alice", "happy">>>>,
                      <<<<"Alice", "sad">>, <<"Bob", "happy">>>>},
        witnesses \in {None, Some(<<"Alice", "Alice">>), Some(<<"Bob", "Alice">>)}}

CharacterPayloads(n) ==
    {ArrayOf(elements) : elements \in UNION {[1..m -> CharacterRaws] : m \in 1..n}}

\* The emotion history of a character whose state is one entry short of the
\* maximum, left by earlier events with ids below 1.
LongHistory ==
    [k \in 1..(MAX_EMOTION_HISTORY - 1) |->
        [emotion |-> "calm", event_id |-> k - (MAX_EMOTION_HISTORY - 1)]]

\* An empty vault, or one in which Alice has a long emotion history.
InitCharacters ==
    /\ chat = TwoMessages
    /\ memories = <<>>
    /\ characters \in
         {NoCharacters,
          "Alice" :> [NewCharacter("Alice") EXCEPT !.emotion_history = LongHistory,
                                                   !.current_emotion = "calm"]}
    /\ relationships = NoRelationships
    /\ settings = [autoHideEnabled |-> FALSE, autoHideThreshold |-> 0,
                   branchAwarePruning |-> FALSE]
    /\ timers = 0
    /\ nextId = 1
    /\ lastOp = "init"
    /\ pre = <<>>
    /\ ret = NoRet
    /\ retrieved = <<>>
    /\ NoStores
    /\ NoHost

NextCharacters ==
    \/ \E ids \in SUBSET Unextracted(chat, memories),
          payload \in CharacterPayloads(MaxReduced + 1 - nextId) :
          ExtractEvents(ids, payload, MaxReduced)
    \/ \E k \in 1..MaxReduced : ReduceAgain(k)

SpecCharacters == InitCharacters /\ [][NextCharacters]_vars

\* ------------------------------------------------- goal, skill, location
\* processGoalsFromEvents on the stored events a..b.
ProcessGoals(a, b) ==
    /\ a \in 1..Len(memories)
    /\ b \in a..Len(memories)
    /\ goals' = processGoalsFromEvents(SubSeq(memories, a, b), goals)
    /\ lastOp' = "processGoals"
    /\ pre' = [events |-> SubSeq(memories, a, b), goals |-> goals]
    /\ ret' = NoRet
    /\ retrieved' = <<>>
    /\ UNCHANGED <<skills, locations, secrets>>
    /\ UNCHANGED host
    /\ UNCHANGED <<chat, memories, characters, relationships, settings, timers,
                   nextId>>

\* The world-state panel completes or abandons a goal.
UpdateGoalStatus(characterName, goalId, newStatus) ==
    /\ characterName \in DOMAIN goals
    /\ \E k \in 1..Len(goals[characterName]) :
          /\ goals[characterName][k].id = goalId
          /\ goals[characterName][k].status # newStatus
    /\ goals' = updateGoalStatus(goals, characterName, goalId, newStatus)
    /\ lastOp' = "goalStatus"
    /\ pre' = <<>>
    /\ ret' = NoRet
    /\ retrieved' = <<>>
    /\ UNCHANGED <<skills, locations, secrets>>
    /\ UNCHANGED host
    /\ UNCHANGED <<chat, memories, characters, relationships, settings, timers,
                   nextId>>

\* processSkillsFromEvents on the stored events a..b, while no skill was used
\* MaxUses times.
ProcessSkills(a, b) ==
    /\ a \in 1..Len(memories)
    /\ b \in a..Len(memories)
    /\ \A charName \in DOMAIN skills :
          \A k \in 1..Len(skills[charName]) : skills[charName][k].use_count < MaxUses
    /\ skills' = processSkillsFromEvents(SubSeq(memories, a, b), skills)
    /\ lastOp' = "processSkills"
    /\ pre' = [events |-> SubSeq(memories, a, b), skills |-> skills]
    /\ ret' = NoRet
    /\ retrieved' = <<>>
    /\ UNCHANGED <<goals, locations, secrets>>
    /\ UNCHANGED host
    /\ UNCHANGED <<chat, memories, characters, relationships, settings, timers,
                   nextId>>

\* processLocationsFromEvents on the stored events a..b.
ProcessLocations(a, b) ==
    /\ a \in 1..Len(memories)
    /\ b \in a..Len(memories)
    /\ LET r == processLocationsFromEvents(SubSeq(memories, a, b), locations)
       IN  /\ locations' = r.locations
           /\ lastOp' = IF r.threw THEN "processLocationsThrew"
                        ELSE "processLocations"
    /\ pre' = [events |-> SubSeq(memories, a, b), locations |-> locations]
    /\ ret' = NoRet
    /\ retrieved' = <<>>
    /\ UNCHANGED <<goals, skills, secrets>>
    /\ UNCHANGED host
    /\ UNCHANGED <<chat, memories, characters, relationships, settings, timers,
                   nextId>>

\* upsertLocation(name, options) with or without options.alias.
UpsertLocation(name, alias) ==
    /\ normalizeLocationName(name) \in DOMAIN locations
          => locations[normalizeLocationName(name)].visit_count < MaxUses
    /\ locations' = IF IsSome(alias) THEN upsertLocationAlias(locations, name, alias[1])
                    ELSE upsertLocation(locations, name)
    /\ lastOp' = "upsertLocation"
    /\ pre' = [locations |-> locations, name |-> name, alias |-> alias]
    /\ ret' = NoRet
    /\ retrieved' = <<>>
    /\ UNCHANGED <<goals, skills, secrets>>
    /\ UNCHANGED host
    /\ UNCHANGED <<chat, memories, characters, relationships, settings, timers,
                   nextId>>

\* linkMemoryToLocation(memoryId, locationName); a TypeError leaves the store
\* as it was.
LinkMemoryToLocation(memoryId, locationName) ==
    /\ LET r == linkMemoryToLocation(locations, memoryId, locationName)
       IN  /\ locations' = r.locations
           /\ lastOp' = IF r.threw THEN "linkMemoryToLocationThrew"
                        ELSE "linkMemoryToLocation"
    /\ pre' = [locations |-> locations, memoryId |-> memoryId,
               locationName |-> locationName]
    /\ ret' = NoRet
    /\ retrieved' = <<>>
    /\ UNCHANGED <<goals, skills, secrets>>
    /\ UNCHANGED host
    /\ UNCHANGED <<chat, memories, characters, relationships, settings, timers,
                   nextId>>

\* createSecret(secretData) with the content and an optional known_by list as
\* secretData; the random secret id is the rank of the secret in the store.
createSecret(sec, content, knownBy) ==
    LET id == Cardinality(DOMAIN sec) + 1
    IN  [k \in DOMAIN sec \cup {id} |->
            IF k = id
            THEN [id |-> id, content |-> content,
                  known_by |-> OrElse(knownBy, Some(<<>>))[1]]
            ELSE sec[k]]

\* characters.filter(c => !secret.known_by.includes(c))
NewKnowers(knownBy, charList) ==
    SelectSeq(charList, LAMBDA c : ~Includes(knownBy, c))

\* revealSecretTo(secretId, characters)
revealSecretTo(sec, secretId, charList) ==
    IF secretId \notin DOMAIN sec THEN [ok |-> FALSE, secrets |-> sec]
    ELSE LET newKnowers == NewKnowers(sec[secretId].known_by, charList)
         IN  IF Len(newKnowers) = 0 THEN [ok |-> TRUE, secrets |-> sec]
             ELSE [ok |-> TRUE,
                   secrets |-> [sec EXCEPT ![secretId].known_by = @ \o newKnowers]]

CreateSecret(content, knownBy) ==
    /\ Cardinality(DOMAIN secrets) < MaxSecrets
    /\ secrets' = createSecret(secrets, content, knownBy)
    /\ lastOp' = "createSecret"
    /\ pre' = [secrets |-> secrets]
    /\ ret' = NoRet
    /\ retrieved' = <<>>
    /\ UNCHANGED <<goals, skills, locations>>
    /\ UNCHANGED host
    /\ UNCHANGED <<chat, memories, characters, relationships, settings, timers,
                   nextId>>

RevealSecretTo(secretId, charList) ==
    /\ LET r == revealSecretTo(secrets, secretId, charList)
       IN  /\ secrets' = r.secrets
           /\ lastOp' = IF r.ok THEN "revealSecretToTrue" ELSE "revealSecretToFalse"
    /\ pre' = [secrets |-> secrets, secretId |-> secretId, characters |-> charList]
    /\ ret' = NoRet
    /\ retrieved' = <<>>
    /\ UNCHANGED <<goals, skills, locations>>
    /\ UNCHANGED host
    /\ UNCHANGED <<chat, memories, characters, relationships, settings, timers,
                   nextId>>

\* createSkill from the world-state panel.
CreateSkill(characterName, skillName, proficiency) ==
    /\ LET r == createSkill(skills, characterName, skillName, proficiency)
       IN  /\ skills' = r.skills
           /\ lastOp' = IF r.existing THEN "createSkillExisting" ELSE "createSkill"
           /\ pre' = [skills |-> skills, characterName |-> characterName,
                      skillName |-> skillName, returned |-> r.returned]
    /\ ret' = NoRet
    /\ retrieved' = <<>>
    /\ UNCHANGED <<goals, locations, secrets>>
    /\ UNCHANGED host
    /\ UNCHANGED <<chat, memories, characters, relationships, settings, timers,
                   nextId>>

\* improveSkill from the world-state panel, on a skill that exists.
ImproveSkill(characterName, skillId) ==
    /\ FindSkill(skills, characterName, skillId) # 0
    /\ LET r == improveSkill(skills, characterName, skillId)
       IN  /\ skills' = r.skills
           /\ lastOp' = IF r.ok THEN "improveSkillTrue" ELSE "improveSkillFalse"
    /\ pre' = [skills |-> skills, characterName |-> characterName,
               skillId |-> skillId]
    /\ ret' = NoRet
    /\ retrieved' = <<>>
    /\ UNCHANGED <<goals, locations, secrets>>
    /\ UNCHANGED host
    /\ UNCHANGED <<chat, memories, characters, relationships, settings, timers,
                   nextId>>

\* Payloads of one to n events drawn from raws.
PayloadsOf(raws, n) ==
    {ArrayOf(elements) : elements \in UNION {[1..m -> raws] : m \in 1..n}}

\* A goal or a skill of an event.
Goal(character, goal) == Some([character |-> character, goal |-> goal])
Skill(character, skill) == Some([character |-> character, skill |-> skill])

\* The events of the goal specification: "Go" and "go" for Alice, "go" for
\* Bob, "ok" for Alice, a goal without character, and no goal.
GoalRaws ==
    {RawObject([EmptyEvent EXCEPT !.goal = goal]) :
        goal \in {Goal("Alice", <<"G", "o">>), Goal("Alice", <<"g", "o">>),
                  Goal("Bob", <<"g", "o">>), Goal("Alice", <<"o", "k">>),
                  Goal("", <<"g", "o">>), None}}

\* The events of the skill specification: "Go" and "gO" for Alice, "Go" for
\* Bob, "ok" for Alice, a skill without name.
SkillRaws ==
    {RawObject([EmptyEvent EXCEPT !.skill = skill]) :
        skill \in {Skill("Alice", <<"G", "o">>), Skill("Alice", <<"g", "O">>),
                   Skill("Bob", <<"G", "o">>), Skill("Alice", <<"o", "k">>),
                   Skill("Alice", <<>>)}}

\* The events of the location specification: "Ta", "ta " and "t_a", which
\* normalize to "ta"; "t  a", which normalizes to "t_a"; "!", which
\* normalizes to the empty key; and no location.
LocationRaws ==
    {RawObject([EmptyEvent EXCEPT !.location = location]) :
        location \in {Some(<<"T", "a">>), Some(<<"t", "a", " ">>),
                      Some(<<"t", "_", "a">>), Some(<<"t", " ", " ", "a">>),
                      Some(<<"!">>), None}}

InitStores ==
    /\ chat = TwoMessages
    /\ memories = <<>>
    /\ characters = NoCharacters
    /\ relationships = NoRelationships
    /\ settings = [autoHideEnabled |-> FALSE, autoHideThreshold |-> 0,
                   branchAwarePruning |-> FALSE]
    /\ timers = 0
    /\ nextId = 1
    /\ lastOp = "init"
    /\ pre = <<>>
    /\ ret = NoRet
    /\ retrieved = <<>>
    /\ NoStores
    /\ NoHost

NextGoals ==
    \/ \E ids \in SUBSET Unextracted(chat, memories),
          payload \in PayloadsOf(GoalRaws, MaxStored + 1 - nextId) :
          ExtractEvents(ids, payload, MaxStored)
    \/ \E a \in 1..MaxStored, b \in 1..MaxStored : ProcessGoals(a, b)
    \/ \E characterName \in Names, goalId \in 1..MaxStored,
          newStatus \in {"completed", "abandoned"} :
          UpdateGoalStatus(characterName, goalId, newStatus)

SpecGoals == InitStores /\ [][NextGoals]_vars

NextSkills ==
    \/ \E ids \in SUBSET Unextracted(chat, memories),
          payload \in PayloadsOf(SkillRaws, MaxStored + 1 - nextId) :
          ExtractEvents(ids, payload, MaxStored)
    \/ \E a \in 1..MaxStored, b \in 1..MaxStored : ProcessSkills(a, b)

SpecSkills == InitStores /\ [][NextSkills]_vars

\* The skill names of the world-state panel: "Go" and "ok".
SkillNames == {<<"G", "o">>, <<"o", "k">>}

\* The event of the skill book: Alice uses "gO".
SkillBookRaws ==
    {RawObject([EmptyEvent EXCEPT !.skill = Skill("Alice", <<"g", "O">>)])}

NextSkillBook ==
    \/ \E ids \in SUBSET Unextracted(chat, memories),
          payload \in PayloadsOf(SkillBookRaws, MaxBook + 1 - nextId) :
          ExtractEvents(ids, payload, MaxBook)
    \/ \E a \in 1..MaxBook, b \in 1..MaxBook : ProcessSkills(a, b)
    \/ \E skillName \in SkillNames, proficiency \in {None, Some("expert")} :
          CreateSkill("Alice", skillName, proficiency)
    \/ \E skillId \in 1..Cardinality(SkillNames) : ImproveSkill("Alice", skillId)

SpecSkillBook == InitStores /\ [][NextSkillBook]_vars

\* The character lists handed to revealSecretTo: none, one, two, and one
\* character named twice.
RevealLists ==
    {<<>>, <<"Bob">>, <<"Alice", "Bob">>, <<"Carol", "Alice">>, <<"Bob", "Bob">>}

NextSecrets ==
    \/ \E content \in {"a", "b"}, knownBy \in {None, Some(<<"Alice">>)} :
          CreateSecret(content, knownBy)
    \/ \E secretId \in 1..(MaxSecrets + 1), charList \in RevealLists :
          RevealSecretTo(secretId, charList)

SpecSecrets == InitStores /\ [][NextSecrets]_vars

\* The location names of the alias specification: "Ta" and "Inn".
PlaceNames == {<<"T", "a">>, <<"I", "n", "n">>}

NextAliases ==
    \/ \E name \in PlaceNames, alias \in {None} \cup {Some(a) : a \in PlaceNames} :
          UpsertLocation(name, alias)
    \/ \E memoryId \in 1..MaxStored, locationName \in PlaceNames :
          LinkMemoryToLocation(memoryId, locationName)

SpecAliases == InitStores /\ [][NextAliases]_vars

NextLocations ==
    \/ \E ids \in SUBSET Unextracted(chat, memories),
          payload \in PayloadsOf(LocationRaws, MaxStored + 1 - nextId) :
          ExtractEvents(ids, payload, MaxStored)
    \/ \E a \in 1..MaxStored, b \in 1..MaxStored : ProcessLocations(a, b)

SpecLocations == InitStores /\ [][NextLocations]_vars

\* ----------------------------------------------- auto-hide and deletion
\* deleteMemory(id) of data/actions.js, called by the delete button of the
\* memory browser: the memory leaves the list and nothing else changes.
deleteMemory(mems, id) == SelectSeq(mems, LAMBDA m : m.id # id)

DeleteMemory(id) ==
    /\ \E k \in 1..Len(memories) : memories[k].id = id
    /\ memories' = deleteMemory(memories, id)
    /\ lastOp' = "deleteMemory"
    /\ pre' = <<>>
    /\ ret' = NoRet
    /\ retrieved' = <<>>
    /\ UNCHANGED stores
    /\ UNCHANGED host
    /\ UNCHANGED <<chat, characters, relationships, settings, timers, nextId>>

FourMessages == <<RegularMessage, RegularMessage, RegularMessage, RegularMessage>>

\* A chat of four visible messages and an empty vault, with branch-aware
\* pruning on and any auto-hide setting.
InitAutoHide ==
    /\ chat = FourMessages
    /\ memories = <<>>
    /\ characters = NoCharacters
    /\ relationships = NoRelationships
    /\ settings \in {s \in SettingsSet : s.branchAwarePruning}
    /\ timers = 0
    /\ nextId = 1
    /\ lastOp = "init"
    /\ pre = <<>>
    /\ ret = NoRet
    /\ retrieved = <<>>
    /\ NoStores
    /\ NoHost

\* The vault of a conversation whose messages were extracted into one memory.
VaultOf(messages) ==
    IF Len(messages) = 0 THEN <<>>
    ELSE <<ParseEvent(EmptyEvent, 0, 1,
                      RangeSeq(0, Len(messages) - 1))>>

\* The user opens another conversation: the host replaces context.chat and
\* the chat metadata, which holds the vault, by those of that conversation,
\* here a new one or one of four extracted messages.  The settings of the
\* extension and the pending timers stay.  The conversation that is left is
\* not opened again.
HostSwitchChat(messages) ==
    /\ activeChat = 1
    /\ activeChat' = activeChat + 1
    /\ chat' = messages
    /\ memories' = VaultOf(messages)
    /\ characters' = updateCharacterStatesFromEvents(VaultOf(messages), NoCharacters)
    /\ relationships' = updateRelationshipsFromEvents(VaultOf(messages),
                                                      NoRelationships)
    /\ nextId' = Len(VaultOf(messages)) + 1
    /\ goals' = NoGoals
    /\ skills' = NoSkills
    /\ locations' = NoLocations
    /\ secrets' = NoSecrets
    /\ lastOp' = "host"
    /\ pre' = <<>>
    /\ ret' = NoRet
    /\ retrieved' = <<>>
    /\ UNCHANGED <<settings, timers, scheduledIn>>

NextSchedule ==
    \/ HostAppend(RegularMessage)
    \/ \E a \in 0..Len(FourMessages), b \in 0..Len(FourMessages) :
          Extract(a, b, EmptyEvent)
    \/ ScheduleAutoHide
    \/ TimerFire
    \/ \E messages \in {<<>>, FourMessages} : HostSwitchChat(messages)

SpecSchedule == InitAutoHide /\ [][NextSchedule]_vars

NextAutoHide ==
    \/ HostAppend(RegularMessage)
    \/ \E len \in 0..Len(FourMessages) : BranchSwitch(len)
    \/ \E a \in 0..Len(FourMessages), b \in 0..Len(FourMessages) :
          Extract(a, b, EmptyEvent)
    \/ AutoHide
    \/ Prune
    \/ \E id \in 1..MaxMemories : DeleteMemory(id)

SpecAutoHide == InitAutoHide /\ [][NextAutoHide]_vars

\* ================================================================ claims
\* Message indices of a chat, its visible ones, and the n oldest visible.
Indices(c) == 0..(Len(c) - 1)
VisibleSet(c) == {idx \in Indices(c) : ~c[idx + 1].is_system}
OldestVisible(c, n) ==
    {idx \in VisibleSet(c) : Cardinality({j \in VisibleSet(c) : j < idx}) < n}

\* The indices a memory references, and whether some stored memory
\* references idx.
ReferencedBySomeMemory(idx) ==
    \E k \in 1..Len(memories) :
        \E i \in 1..Len(memories[k].message_ids) : memories[k].message_ids[i] = idx

\* The messages whose flag the last auto-hide run set: visible before (pre),
\* hidden after.
HiddenByRun ==
    {idx \in Indices(chat) : chat[idx + 1].is_system /\ ~pre[idx + 1].is_system}

\* The number of messages the policy asks to hide for V visible messages.
PairsExcess(V, T) == IF V > T THEN ((V - T) \div 2) * 2 ELSE 0

\* C1: every message a run of autoHideOldMessages hides is referenced by a
\* stored memory at the time of the run; an un-extracted message is never
\* hidden by auto-hide.
C1_HiddenOnlyIfExtracted ==
    lastOp = "autoHide" =>
        /\ Len(chat) = Len(pre)
        /\ \A idx \in HiddenByRun : ReferencedBySomeMemory(idx)

\* C1 witness: a run hid a message and skipped an older, un-extracted one.
C1_Witness ==
    /\ lastOp = "autoHide"
    /\ \E idx \in HiddenByRun :
          \E older \in VisibleSet(chat) :
              older < idx /\ ~ReferencedBySomeMemory(older)

\* The 60-message scenario: threshold 50, 60 visible extracted messages.
Chat60 == [k \in 1..60 |-> RegularMessage]
Vault60 == <<ParseEvent(EmptyEvent, 0, 1, RangeSeq(0, 59))>>
Settings50 ==
    [autoHideEnabled |-> TRUE, autoHideThreshold |-> 50, branchAwarePruning |-> TRUE]
Scenario60 ==
    LET after == autoHideOldMessages(Chat60, Vault60, Settings50)
    IN  {k \in 1..60 : after[k].is_system} = 1..10

\* C2: with auto-hide enabled, V visible messages, V > T and the oldest
\* floor((V - T)/2)*2 visible messages all extracted, one run hides exactly
\* those messages (T = 50, V = 60: the 10 oldest).
C2_HidesOldestPairs ==
    /\ Scenario60
    /\ (lastOp = "autoHide" /\ settings.autoHideEnabled) =>
          LET V == Cardinality(VisibleSet(pre))
              T == Threshold(settings)
              n == PairsExcess(V, T)
          IN  (V > T /\ \A idx \in OldestVisible(pre, n) : ReferencedBySomeMemory(idx))
                 => /\ HiddenByRun = OldestVisible(pre, n)
                    /\ Cardinality(HiddenByRun) = n

\* C2 witness: a run with V > T whose oldest messages were extracted hid a
\* pair.
C2_Witness ==
    /\ lastOp = "autoHide"
    /\ settings.autoHideEnabled
    /\ Cardinality(VisibleSet(pre)) > Threshold(settings)
    /\ Cardinality(HiddenByRun) = 2
    /\ HiddenByRun = OldestVisible(pre, 2)

\* C3 (as claimed): the number of messages a single run hides is even.
C3_HiddenCountEven ==
    lastOp = "autoHide" => Cardinality(HiddenByRun) % 2 = 0

\* C4 (as claimed): a message whose flag was set by the host or the user and
\* not by auto-hide keeps is_system = true in every step.
C4_HostFlagsKept ==
    [][\A k \in 1..Len(chat) :
          (k <= Len(chat') /\ chat[k].is_system /\ chat[k].hider = "host")
              => chat'[k].is_system]_vars

\* C5: after unhideMessagesForBranch on a non-empty chat every message with
\* is_system = true and an is_user or name field is visible, unhiddenCount is
\* the number of flags cleared and a true system message is unchanged; on an
\* empty chat nothing changes and both counts are 0.
C5_UnhideFrame ==
    lastOp = "unhide" =>
        /\ Len(chat) = Len(pre)
        /\ ret.rehiddenCount = 0
        /\ ret.unhiddenCount =
              Cardinality({k \in 1..Len(pre) : pre[k].is_system /\ ~chat[k].is_system})
        /\ \A k \in 1..Len(pre) :
              IF pre[k].is_system /\ pre[k].is_user = Undefined /\ pre[k].name = Undefined
              THEN chat[k] = pre[k]
              ELSE /\ ~chat[k].is_system
                   /\ chat[k] = [pre[k] EXCEPT !.is_system = FALSE, !.hider = "none"]
        /\ Len(pre) = 0 => (chat = pre /\ ret.unhiddenCount = 0)

\* C5 witness: an un-hide cleared the flag of a message and left a true
\* system message alone.
C5_Witness ==
    /\ lastOp = "unhide"
    /\ ret.unhiddenCount >= 1
    /\ \E k \in 1..Len(chat) : chat[k].is_system /\ chat[k].name = Undefined

\* C6 (as claimed): when auto-hide is enabled, unhideMessagesForBranch, once
\* it has unhidden the auto-hidden messages, ends with the oldest excess
\* extracted messages hidden again: if the oldest floor((V - T)/2)*2 visible
\* messages it leaves are all extracted, there are none of them.
C6_RehiddenAfterUnhide ==
    (lastOp = "unhide" /\ settings.autoHideEnabled /\ ret.unhiddenCount >= 1) =>
        LET V == Cardinality(VisibleSet(chat))
            n == PairsExcess(V, Threshold(settings))
        IN  (\A idx \in OldestVisible(chat, n) : ReferencedBySomeMemory(idx)) => n = 0

\* The ids of a list of memories.
IdsOf(mems) == {mems[k].id : k \in 1..Len(mems)}

\* Whether every message index a memory references is >= len, that is its
\* minimum referenced index is >= len.
OutOfRange(memory, len) ==
    \A i \in 1..Len(memory.message_ids) : memory.message_ids[i] >= len

\* C7: with branch-aware pruning enabled, pruning for chat length L removes
\* exactly the memories whose minimum referenced index is >= L and keeps the
\* others; it changes nothing when the flag disables it or no memory is out
\* of range.
C7_PruneExactlyStale ==
    lastOp = "prune" =>
        LET L == pre.chatLength
            stale == {k \in 1..Len(pre.memories) : OutOfRange(pre.memories[k], L)}
        IN  IF settings.branchAwarePruning /\ stale # {}
            THEN /\ \A k \in 1..Len(pre.memories) :
                       (k \in stale) <=> ~(\E j \in 1..Len(memories) :
                                              memories[j] = pre.memories[k])
                 /\ Len(memories) = Len(pre.memories) - Cardinality(stale)
                 /\ ret.prunedCount = Cardinality(stale)
            ELSE /\ memories = pre.memories
                 /\ characters = pre.characters
                 /\ relationships = pre.relationships
                 /\ ret.prunedCount = 0

\* C7 witness: a pruning removed a memory and kept one that references a
\* message inside and a message outside the branch.
C7_Witness ==
    /\ lastOp = "prune"
    /\ ret.prunedCount >= 1
    /\ \E j \in 1..Len(memories) :
          /\ MinOf(memories[j].message_ids) < pre.chatLength
          /\ MaxOf(memories[j].message_ids) >= pre.chatLength

\* C8: pruning again with the same chatLength removes nothing.
C8_PruneIdempotent ==
    lastOp = "prune" =>
        LET again == pruneForBranch(memories, characters, relationships,
                                    pre.chatLength, settings)
        IN  /\ again.prunedCount = 0
            /\ again.memories = memories
            /\ again.characters = characters
            /\ again.relationships = relationships

\* C8 witness: a pruning that removed two memories.
C8_Witness ==
    /\ lastOp = "prune"
    /\ ret.prunedCount >= 2

\* The ids of the memories the last pruning removed.
RemovedIds == IdsOf(pre.memories) \ IdsOf(memories)

\* C9: after pruning no known_events list and no relationship history entry
\* references a removed memory, every other reference is kept, and no
\* character or relationship record is deleted.
C9_NoDanglingReferences ==
    lastOp = "prune" =>
        /\ DOMAIN characters = DOMAIN pre.characters
        /\ DOMAIN relationships = DOMAIN pre.relationships
        /\ \A n \in DOMAIN characters :
              /\ \A id \in RemovedIds : ~Includes(characters[n].known_events, id)
              /\ \A id \in SeqToSet(pre.characters[n].known_events) \ RemovedIds :
                    Includes(characters[n].known_events, id)
        /\ \A key \in DOMAIN relationships :
              /\ \A i \in 1..Len(relationships[key].history) :
                    relationships[key].history[i].event_id \notin RemovedIds
              /\ \A i \in 1..Len(pre.relationships[key].history) :
                    pre.relationships[key].history[i].event_id \notin RemovedIds
                       => Includes(relationships[key].history,
                                   pre.relationships[key].history[i])

\* C9 witness: a pruning removed a memory that a character knew and that a
\* relationship history referenced.
C9_Witness ==
    /\ lastOp = "prune"
    /\ \E id \in RemovedIds :
          /\ \E n \in DOMAIN pre.characters :
                Includes(pre.characters[n].known_events, id)
          /\ \E key \in DOMAIN pre.relationships :
                \E i \in 1..Len(pre.relationships[key].history) :
                    pre.relationships[key].history[i].event_id = id

\* Whether the POV filter lets a memory through.
KnownToPov(memory, pov) ==
    \/ ~IsSome(pov)
    \/ ~memory.is_secret
    \/ (IsSome(memory.known_by) /\ Includes(memory.known_by[1], pov[1]))

Kept(mems, pov) == {k \in 1..Len(mems) : KnownToPov(mems[k], pov)}

\* A secret memory known by Alice only, and a memory that is no secret.
SecretOfAlice ==
    ParseEvent([EmptyEvent EXCEPT !.is_secret = TRUE,
                                  !.known_by = Some(<<"Alice">>)], 0, 1, <<0>>)
OpenMemory == ParseEvent(EmptyEvent, 1, 2, <<0>>)

\* C11: with a POV character filterMemoriesByKnowledge returns exactly the
\* input memories, in input order, minus the secret memories whose known_by
\* does not contain the POV character; with pov = null it returns the input.
\* A secret known by Alice is excluded for Bob and included for Alice and
\* for null.
C11_FilterByKnowledge ==
    /\ lastOp = "filter" =>
          /\ Len(retrieved) = Cardinality(Kept(memories, pre.pov))
          /\ \A k \in Kept(memories, pre.pov) :
                retrieved[Cardinality({j \in Kept(memories, pre.pov) : j <= k})]
                    = memories[k]
          /\ ~IsSome(pre.pov) => retrieved = memories
    /\ lastOp = "filter" =>
          /\ filterMemoriesByKnowledge(<<SecretOfAlice, OpenMemory>>, Some("Bob"))
                = <<OpenMemory>>
          /\ filterMemoriesByKnowledge(<<SecretOfAlice, OpenMemory>>, Some("Alice"))
                = <<SecretOfAlice, OpenMemory>>
          /\ filterMemoriesByKnowledge(<<SecretOfAlice, OpenMemory>>, None)
                = <<SecretOfAlice, OpenMemory>>

\* C11 witness: a filter call for Bob dropped a secret known by Alice only and
\* kept a memory that is no secret.
C11_Witness ==
    /\ lastOp = "filter"
    /\ pre.pov = Some("Bob")
    /\ Len(memories) = 2
    /\ memories[1].is_secret
    /\ memories[1].known_by = Some(<<"Alice">>)
    /\ ~memories[2].is_secret
    /\ retrieved = <<memories[2]>>

\* C13: every stored memory has an importance in 1..5, whatever the
\* importance of the extracted event was (absent, zero, negative, above 5).
C13_ImportanceClamped ==
    \A k \in 1..Len(memories) : memories[k].importance \in 1..5

\* C13 witness: a batch with importance 7 and importance -2 was stored with
\* importance 5 and 1.
C13_Witness ==
    /\ lastOp = "extractEvents"
    /\ Len(pre.payload.elements) = 2
    /\ pre.payload.elements[1].event.importance = Some(7)
    /\ pre.payload.elements[2].event.importance = Some(-2)
    /\ Len(memories) = 2
    /\ memories[1].importance = 5
    /\ memories[2].importance = 1

\* C14: in every state reached through parseExtractionResult,
\* markMemoryAsSecret and unmarkMemoryAsSecret, a memory has a known_by list
\* if and only if it is a secret.
C14_KnownByIffSecret ==
    \A k \in 1..Len(memories) :
        IsSome(memories[k].known_by) <=> memories[k].is_secret

\* C14 witness: after a markMemoryAsSecret call the vault holds a secret known
\* by Bob and a memory that is no secret and has no known_by list.
C14_Witness ==
    /\ lastOp = "mark"
    /\ \E k \in 1..Len(memories) :
          memories[k].is_secret /\ memories[k].known_by = Some(<<"Bob">>)
    /\ \E k \in 1..Len(memories) :
          ~memories[k].is_secret /\ memories[k].known_by = None

\* The positions of the memories the last extraction run stored.
Stored == (Len(pre.memories) + 1)..Len(memories)

BatchIndices == {0, 1, 998, 999}

\* C16: sequence orders memories by earliest source message and, within a
\* batch, by extraction order: the memory with the smaller minimum message id
\* has the smaller sequence, and of two memories of one batch the one
\* extracted first has the smaller sequence.
C16_SequenceOrders ==
    /\ \A i, j \in 1..Len(memories) :
          /\ MinOf(memories[i].message_ids) < MinOf(memories[j].message_ids)
                => memories[i].sequence < memories[j].sequence
          /\ (i < j /\ memories[i].message_ids = memories[j].message_ids)
                => memories[i].sequence < memories[j].sequence
    /\ lastOp = "extractEvents" =>
          \A m1, m2 \in 0..MaxChat, i1, i2 \in BatchIndices :
             /\ m1 < m2 => sequence(m1, i1) < sequence(m2, i2)
             /\ i1 < i2 => sequence(m1, i1) < sequence(m1, i2)

\* C16 witness: the memory extracted second comes from an earlier message and
\* has the smaller sequence.
C16_Witness ==
    /\ lastOp = "extractEvents"
    /\ Len(memories) = 2
    /\ MinOf(memories[2].message_ids) < MinOf(memories[1].message_ids)
    /\ memories[2].sequence < memories[1].sequence

\* An element that is an event object with its summary.
WellFormed(raw) == raw.kind = "object" /\ raw.event.summary > 0

\* C17: parseExtractionResult never throws; output that does not parse gives
\* no events, and a malformed element of a batch (null, no object, required
\* fields missing) is skipped while the other events of the batch are stored.
C17_MalformedSkipped ==
    /\ lastOp # "extractThrew"
    /\ lastOp = "extractEvents" =>
          Len(memories) - Len(pre.memories)
              = Cardinality({k \in 1..Len(pre.payload.elements) :
                                WellFormed(pre.payload.elements[k])})

\* ------------------------------------------------------ C12, C18 .. C20
\* The relationship_impact entries of a batch, in the order they are applied,
\* and those of them that match the "A->B" pattern.
RECURSIVE EntriesOf(_)
EntriesOf(elements) ==
    IF Len(elements) = 0 THEN <<>>
    ELSE Head(elements).event.relationship_impact \o EntriesOf(Tail(elements))

Applied == SelectSeq(EntriesOf(pre.payload.elements), LAMBDA e : e.match)

\* The applied entries of the last run that are about the pair of a key.
AppliedTo(key) ==
    SelectSeq(Applied, LAMBDA e : {e.charA, e.charB} = {key[1], key[2]})

\* The levels of a relationship before the last run: the stored ones, or the
\* defaults of a relationship that did not exist.
DefaultLevel ==
    [d \in Dims |->
        CASE d = "trust" -> 5 [] d = "tension" -> 0 [] d = "respect" -> 5
          [] d = "attraction" -> 0 [] d = "fear" -> 0 [] d = "loyalty" -> 5
          [] d = "familiarity" -> 1]

LevelBefore(key) ==
    IF key \in DOMAIN pre.relationships THEN pre.relationships[key].level
    ELSE DefaultLevel

\* C12: every relationship dimension stays within 0..10 after any sequence of
\* structured and legacy impacts, starting from the default relationship.
C12_DimensionsClamped ==
    \A key \in DOMAIN relationships :
        \A d \in Dims : relationships[key].level[d] \in 0..10

\* C12 witness: impacts have driven one dimension to 10 and another to 0
\* although the deltas applied would have passed the ends.
C12_Witness ==
    /\ lastOp = "extractEvents"
    /\ \E key \in DOMAIN relationships :
          /\ relationships[key].level["fear"] = 10
          /\ relationships[key].level["trust"] = 0
          /\ Len(relationships[key].history) = 3

\* C18: impacts keyed "A->B" and "B->A" update one relationship record, stored
\* under the two names sorted; the store holds at most one record per
\* unordered pair, and a new record has the defaults trust=5, tension=0,
\* respect=5, attraction=0, fear=0, loyalty=5, familiarity=1 before the impact
\* is applied.
C18_OneRecordPerPair ==
    /\ \A key \in DOMAIN relationships :
          /\ key \in {<<"Alice", "Alice">>, <<"Alice", "Bob">>, <<"Bob", "Bob">>}
          /\ relationships[key].character_a = key[1]
          /\ relationships[key].character_b = key[2]
          /\ \A k \in 1..Len(relationships[key].history) :
                LET h == relationships[key].history[k]
                IN  {h.direction[1], h.direction[2]} = {key[1], key[2]}
    /\ \A k1, k2 \in DOMAIN relationships :
          {k1[1], k1[2]} = {k2[1], k2[2]} => k1 = k2
    /\ lastOp = "extractEvents" =>
          \A key \in DOMAIN relationships :
             /\ Len(relationships[key].history)
                   = (IF key \in DOMAIN pre.relationships
                      THEN Len(pre.relationships[key].history) ELSE 0)
                     + Len(AppliedTo(key))
             /\ (/\ key \notin DOMAIN pre.relationships
                 /\ Len(AppliedTo(key)) = 1
                 /\ AppliedTo(key)[1].impact.kind = "object")
                   => \A d \in Dims :
                         relationships[key].level[d]
                            = LET delta == AppliedTo(key)[1].impact.deltas[d]
                              IN  IF IsSome(delta)
                                  THEN Min(10, Max(0, DefaultLevel[d] + delta[1]))
                                  ELSE DefaultLevel[d]

\* C18 witness: one batch with an "Alice->Bob" and a "Bob->Alice" impact left
\* one record, under the sorted key, with both impacts in its history.
C18_Witness ==
    /\ lastOp = "extractEvents"
    /\ Len(pre.memories) = 0
    /\ DOMAIN relationships = {<<"Alice", "Bob">>}
    /\ Len(relationships[<<"Alice", "Bob">>].history) = 2
    /\ relationships[<<"Alice", "Bob">>].history[1].direction = <<"Bob", "Alice">>
    /\ relationships[<<"Alice", "Bob">>].history[2].direction = <<"Alice", "Bob">>

\* C19: every legacy (string) impact raises familiarity by exactly 1, capped
\* at 10, whatever its text; under legacy impacts familiarity never decreases.
C19_LegacyFamiliarity ==
    (/\ lastOp = "extractEvents"
     /\ \A k \in 1..Len(Applied) : Applied[k].impact.kind = "string")
       => \A key \in DOMAIN relationships :
             /\ relationships[key].level["familiarity"]
                   = Min(10, LevelBefore(key)["familiarity"] + Len(AppliedTo(key)))
             /\ relationships[key].level["familiarity"]
                   >= LevelBefore(key)["familiarity"]

\* C19 witness: a legacy impact on a relationship whose familiarity was
\* already 10 left it at 10.
C19_Witness ==
    /\ lastOp = "extractEvents"
    /\ Len(Applied) = 1
    /\ Applied[1].impact.kind = "string"
    /\ <<"Alice", "Bob">> \in DOMAIN pre.relationships
    /\ pre.relationships[<<"Alice", "Bob">>].level["familiarity"] = 10
    /\ relationships[<<"Alice", "Bob">>].level["familiarity"] = 10

\* C20: a structured (object) impact changes only the dimensions it carries a
\* number for, each by its delta clamped to 0..10; familiarity and every
\* other dimension it does not carry are unchanged.
C20_StructuredFrame ==
    (/\ lastOp = "extractEvents"
     /\ Len(Applied) = 1
     /\ Applied[1].impact.kind = "object")
       => \A key \in DOMAIN relationships :
             \A d \in Dims :
                relationships[key].level[d]
                   = IF /\ Len(AppliedTo(key)) = 1
                        /\ IsSome(Applied[1].impact.deltas[d])
                     THEN Min(10, Max(0, LevelBefore(key)[d]
                                            + Applied[1].impact.deltas[d][1]))
                     ELSE LevelBefore(key)[d]

\* C20 witness: a structured impact with a trust delta only changed the trust
\* of a relationship that legacy impacts had made more familiar, and left its
\* familiarity as it was.
C20_Witness ==
    /\ lastOp = "extractEvents"
    /\ Len(Applied) = 1
    /\ Applied[1].impact.kind = "object"
    /\ IsSome(Applied[1].impact.deltas["trust"])
    /\ ~IsSome(Applied[1].impact.deltas["familiarity"])
    /\ <<"Alice", "Bob">> \in DOMAIN pre.relationships
    /\ pre.relationships[<<"Alice", "Bob">>].level["familiarity"] = 3
    /\ relationships[<<"Alice", "Bob">>].level["familiarity"] = 3
    /\ relationships[<<"Alice", "Bob">>].level["trust"]
          # pre.relationships[<<"Alice", "Bob">>].level["trust"]

\* ------------------------------------------------------------ C21, C22
\* The one applied entry of the last run, when it is a legacy string, and the
\* key of the relationship it is about.
OneLegacy == Len(Applied) = 1 /\ Applied[1].impact.kind = "string"

AppliedKey == CHOOSE key \in DOMAIN relationships : Len(AppliedTo(key)) = 1

\* C21: a legacy string with "trust" and one of "increas", "deepen", "gain"
\* raises trust by 1 (capped at 10) and familiarity by 1 in the same call;
\* "Trust deepens between them" on a fresh relationship gives trust 6 and
\* familiarity 2 and leaves the other five dimensions at their defaults.
C21_TrustDeepens ==
    (/\ lastOp = "extractEvents"
     /\ OneLegacy
     /\ "trust" \in Applied[1].impact.text
     /\ Applied[1].impact.text \cap {"increas", "deepen", "gain"} # {})
       => /\ relationships[AppliedKey].level["trust"]
                = Min(10, LevelBefore(AppliedKey)["trust"] + 1)
          /\ relationships[AppliedKey].level["familiarity"]
                = Min(10, LevelBefore(AppliedKey)["familiarity"] + 1)
          /\ (/\ Applied[1].impact.text = {"trust", "deepen"}
              /\ AppliedKey \notin DOMAIN pre.relationships)
                => relationships[AppliedKey].level
                      = [DefaultLevel EXCEPT !["trust"] = 6, !["familiarity"] = 2]

\* C21 witness: "Trust deepens between them" was applied to a fresh
\* relationship, which now has trust 6 and familiarity 2.
C21_Witness ==
    /\ lastOp = "extractEvents"
    /\ OneLegacy
    /\ Applied[1].impact.text = {"trust", "deepen"}
    /\ pre.relationships = NoRelationships
    /\ relationships[<<"Alice", "Bob">>].level["trust"] = 6
    /\ relationships[<<"Alice", "Bob">>].level["familiarity"] = 2
    /\ relationships[<<"Alice", "Bob">>].level["loyalty"] = 5

\* The keywords that raise loyalty, and those that lower it.
LoyaltyUp == {"loyal", "devotion", "commit"}
LoyaltyDown == {"betray", "abandon"}

\* C22 as amended: a legacy string with "betray" or "abandon" lowers loyalty
\* by 1 (not below 0) when it has none of "loyal", "devotion", "commit"; when
\* it has one of those, loyalty is raised by 1 (capped at 10) instead.
C22_BetrayLowersLoyaltyUnlessLoyal ==
    (/\ lastOp = "extractEvents"
     /\ OneLegacy
     /\ Applied[1].impact.text \cap LoyaltyDown # {})
       => relationships[AppliedKey].level["loyalty"]
             = IF Applied[1].impact.text \cap LoyaltyUp = {}
               THEN Max(0, LevelBefore(AppliedKey)["loyalty"] - 1)
               ELSE Min(10, LevelBefore(AppliedKey)["loyalty"] + 1)

\* C22 witness: a string with "betray" and none of the raising keywords met a
\* loyalty of 0 and left it at 0.
C22_Witness ==
    /\ lastOp = "extractEvents"
    /\ OneLegacy
    /\ "betray" \in Applied[1].impact.text
    /\ Applied[1].impact.text \cap LoyaltyUp = {}
    /\ AppliedKey \in DOMAIN pre.relationships
    /\ pre.relationships[AppliedKey].level["loyalty"] = 0
    /\ relationships[AppliedKey].level["loyalty"] = 0

\* C22 as stated: every legacy string with "betray" or "abandon" lowers
\* loyalty by 1 (not below 0).
C22_BetrayLowersLoyalty ==
    (/\ lastOp = "extractEvents"
     /\ OneLegacy
     /\ Applied[1].impact.text \cap LoyaltyDown # {})
       => relationships[AppliedKey].level["loyalty"]
             = Max(0, LevelBefore(AppliedKey)["loyalty"] - 1)

\* ------------------------------------------------------------ C23, C24
\* The events the last operation reduced, in order.
Reduced ==
    IF lastOp = "reduceAgain" THEN pre.events
    ELSE SubSeq(memories, Len(pre.memories) + 1, Len(memories))

ReducedOp == lastOp \in {"extractEvents", "reduceAgain"}

\* The history entries events k..Len append for charName, in order.
RECURSIVE Appended(_, _, _)
Appended(events, charName, k) ==
    IF k > Len(events) THEN <<>>
    ELSE SelectSeq([i \in 1..Len(events[k].emotional_impact) |->
                      [name |-> events[k].emotional_impact[i][1],
                       emotion |-> events[k].emotional_impact[i][2],
                       event_id |-> events[k].id]],
                   LAMBDA e : e.name = charName)
         \o Appended(events, charName, k + 1)

HistoryBefore(charName) ==
    IF charName \in DOMAIN pre.characters
    THEN pre.characters[charName].emotion_history ELSE <<>>

\* The last n elements of a sequence.
LastOf(seq, n) ==
    IF Len(seq) <= n THEN seq ELSE SubSeq(seq, Len(seq) - n + 1, Len(seq))

\* C23: every emotion_history holds at most 50 entries, and after a
\* reduction it is the last 50 of the entries held before followed by the
\* appended ones, in append order: the oldest entries are the ones evicted.
C23_HistoryMostRecent ==
    /\ \A n \in DOMAIN characters :
          Len(characters[n].emotion_history) <= MAX_EMOTION_HISTORY
    /\ ReducedOp =>
          \A n \in DOMAIN characters :
             LET all == HistoryBefore(n) \o Appended(Reduced, n, 1)
             IN  /\ Len(characters[n].emotion_history)
                       = Len(LastOf(all, MAX_EMOTION_HISTORY))
                 /\ \A k \in 1..Len(characters[n].emotion_history) :
                       LET kept == LastOf(all, MAX_EMOTION_HISTORY)[k]
                           held == characters[n].emotion_history[k]
                       IN  /\ held.emotion = kept.emotion
                           /\ held.event_id = kept.event_id

\* C23 witness: a history of 50 entries received a 51st; the oldest entry
\* left and the new one is last.
C23_Witness ==
    /\ ReducedOp
    /\ "Alice" \in DOMAIN pre.characters
    /\ Len(pre.characters["Alice"].emotion_history) = MAX_EMOTION_HISTORY
    /\ Len(Appended(Reduced, "Alice", 1)) = 1
    /\ Len(characters["Alice"].emotion_history) = MAX_EMOTION_HISTORY
    /\ characters["Alice"].emotion_history[1]
          = pre.characters["Alice"].emotion_history[2]
    /\ characters["Alice"].emotion_history[MAX_EMOTION_HISTORY].event_id
          = Reduced[Len(Reduced)].id

\* C24: no known_events holds the same event id twice, and after a reduction
\* every witness of a reduced event has a CharacterState whose known_events
\* holds the event id.
C24_KnownEventsSet ==
    /\ \A n \in DOMAIN characters :
          \A i, j \in 1..Len(characters[n].known_events) :
             characters[n].known_events[i] = characters[n].known_events[j] => i = j
    /\ ReducedOp =>
          \A k \in 1..Len(Reduced) :
             \A i \in 1..Len(Reduced[k].witnesses) :
                /\ Reduced[k].witnesses[i] \in DOMAIN characters
                /\ Includes(characters[Reduced[k].witnesses[i]].known_events,
                            Reduced[k].id)

\* C24 witness: an event that lists Alice twice was reduced a second time;
\* Alice knew it already and still holds its id once.
C24_Witness ==
    /\ lastOp = "reduceAgain"
    /\ pre.events[1].witnesses = <<"Alice", "Alice">>
    /\ Includes(pre.characters["Alice"].known_events, pre.events[1].id)
    /\ Len(SelectSeq(characters["Alice"].known_events,
                     LAMBDA id : id = pre.events[1].id)) = 1
    /\ "Bob" \notin DOMAIN characters

\* ------------------------------------------------------- C25, C26, C27
\* Two characters that are the same letter, and two texts equal ignoring case.
SameLetter(c, d) ==
    \/ c = d
    \/ \E i \in 1..Len(UpperCase) :
          {c, d} = {UpperCase[i], LowerCase[i]}

EqualIgnoringCase(str, other) ==
    /\ Len(str) = Len(other)
    /\ \A k \in 1..Len(str) : SameLetter(str[k], other[k])

\* The list a store held for charName before the last operation.
ListBefore(store, charName) ==
    IF charName \in DOMAIN store THEN store[charName] ELSE <<>>

\* The last operation processed one event that names a character and a goal.
OneGoalEvent ==
    /\ lastOp = "processGoals"
    /\ Len(pre.events) = 1
    /\ IsSome(pre.events[1].goal)
    /\ pre.events[1].goal[1].character # ""
    /\ pre.events[1].goal[1].goal # <<>>

\* C25: no character has two goals whose text is equal ignoring case; an
\* event whose goal text duplicates a goal of the character, of any status,
\* creates no goal, and an event without such a duplicate appends exactly one
\* goal, with status active.
C25_NoDuplicateGoals ==
    /\ \A charName \in DOMAIN goals :
          \A i, j \in 1..Len(goals[charName]) :
             EqualIgnoringCase(goals[charName][i].goal, goals[charName][j].goal)
                => i = j
    /\ OneGoalEvent =>
          LET charName == pre.events[1].goal[1].character
              text == pre.events[1].goal[1].goal
              before == ListBefore(pre.goals, charName)
          IN  /\ charName \in DOMAIN goals
              /\ \A other \in DOMAIN goals \ {charName} :
                    /\ other \in DOMAIN pre.goals
                    /\ goals[other] = pre.goals[other]
              /\ IF \E k \in 1..Len(before) : EqualIgnoringCase(before[k].goal, text)
                 THEN goals[charName] = before
                 ELSE /\ Len(goals[charName]) = Len(before) + 1
                      /\ SubSeq(goals[charName], 1, Len(before)) = before
                      /\ goals[charName][Len(before) + 1].goal = text
                      /\ goals[charName][Len(before) + 1].status = "active"
                      /\ goals[charName][Len(before) + 1].related_memory_ids
                            = <<pre.events[1].id>>

\* C25 witness: an event asked for a goal that the character had completed
\* under a text of other case, and no goal was created.
C25_Witness ==
    /\ OneGoalEvent
    /\ pre.events[1].goal[1].character \in DOMAIN pre.goals
    /\ \E k \in 1..Len(pre.goals[pre.events[1].goal[1].character]) :
          LET held == pre.goals[pre.events[1].goal[1].character][k]
          IN  /\ held.status = "completed"
              /\ held.goal # pre.events[1].goal[1].goal
              /\ EqualIgnoringCase(held.goal, pre.events[1].goal[1].goal)
    /\ goals = pre.goals

\* The last operation processed one event that names a character and a skill.
OneSkillEvent ==
    /\ lastOp = "processSkills"
    /\ Len(pre.events) = 1
    /\ IsSome(pre.events[1].skill)
    /\ pre.events[1].skill[1].character # ""
    /\ pre.events[1].skill[1].skill # <<>>

\* C26: processSkillsFromEvents matches a skill of the character by name
\* ignoring case; the skill found gets use_count + 1 and the event id in
\* related_memory_ids, appended unless it is there; without a match one skill
\* is created, at novice proficiency, with related_memory_ids <<event id>>.
C26_SkillUpsert ==
    OneSkillEvent =>
        LET charName == pre.events[1].skill[1].character
            text == pre.events[1].skill[1].skill
            id == pre.events[1].id
            before == ListBefore(pre.skills, charName)
            matches == {k \in 1..Len(before) : EqualIgnoringCase(before[k].skill, text)}
        IN  /\ charName \in DOMAIN skills
            /\ \A k \in 1..Len(before) \ matches : skills[charName][k] = before[k]
            /\ IF matches # {}
               THEN /\ Len(skills[charName]) = Len(before)
                    /\ \A k \in matches :
                          /\ skills[charName][k].use_count = before[k].use_count + 1
                          /\ skills[charName][k].related_memory_ids
                                = IF Includes(before[k].related_memory_ids, id)
                                  THEN before[k].related_memory_ids
                                  ELSE Append(before[k].related_memory_ids, id)
                          /\ skills[charName][k].proficiency = before[k].proficiency
               ELSE /\ Len(skills[charName]) = Len(before) + 1
                    /\ skills[charName][Len(before) + 1].skill = text
                    /\ skills[charName][Len(before) + 1].proficiency = "novice"
                    /\ skills[charName][Len(before) + 1].use_count = 1
                    /\ skills[charName][Len(before) + 1].related_memory_ids = <<id>>

\* C26 witness: an event named a skill the character held under a text of
\* other case; the use count went from 1 to 2 and the event id was appended.
C26_Witness ==
    /\ OneSkillEvent
    /\ pre.events[1].skill[1].character = "Alice"
    /\ "Alice" \in DOMAIN pre.skills
    /\ Len(pre.skills["Alice"]) = 1
    /\ pre.skills["Alice"][1].skill # pre.events[1].skill[1].skill
    /\ pre.skills["Alice"][1].use_count = 1
    /\ Len(skills["Alice"]) = 1
    /\ skills["Alice"][1].use_count = 2
    /\ Len(skills["Alice"][1].related_memory_ids) = 2

\* The events of the last processLocationsFromEvents whose location
\* normalizes to key.
MentionsOf(key) ==
    SelectSeq(pre.events,
              LAMBDA e : IsSome(e.location)
                         /\ normalizeLocationName(e.location[1]) = key)

\* C27: after processLocationsFromEvents on events of a vault without
\* locations, the visit_count of a location is the number of those events
\* whose location normalizes to its key, and its memory_ids holds each of
\* their ids exactly once.
C27_VisitCount ==
    (lastOp = "processLocations" /\ pre.locations = NoLocations) =>
        \A key \in DOMAIN locations :
            /\ locations[key].visit_count = Len(MentionsOf(key))
            /\ \A k \in 1..Len(MentionsOf(key)) :
                  Len(SelectSeq(locations[key].memory_ids,
                                LAMBDA id : id = MentionsOf(key)[k].id)) = 1

\* The memory_ids part of C27 alone.
MemoryIdsOnce ==
    (lastOp = "processLocations" /\ pre.locations = NoLocations) =>
        \A key \in DOMAIN locations :
            \A k \in 1..Len(MentionsOf(key)) :
                Len(SelectSeq(locations[key].memory_ids,
                              LAMBDA id : id = MentionsOf(key)[k].id)) = 1

\* ------------------------------------------------------- C28, C29, C30
\* The threshold of a run, the visible count before it, and the messages the
\* run considers: the oldest visible ones, in pairs, beyond the threshold.
EffectiveThreshold ==
    IF settings.autoHideThreshold = 0 THEN DefaultThreshold
    ELSE settings.autoHideThreshold

VisibleBefore == Cardinality(VisibleSet(pre))

NewestVisible(c, n) ==
    {idx \in VisibleSet(c) : Cardinality({j \in VisibleSet(c) : j > idx}) < n}

Considered ==
    IF settings.autoHideEnabled
    THEN OldestVisible(pre, PairsExcess(VisibleBefore, EffectiveThreshold))
    ELSE {}

\* C28: a run of autoHideOldMessages hides none of the threshold newest
\* visible messages, leaves at least threshold messages visible (all of them
\* when there were fewer), and changes nothing when auto-hide is disabled or
\* the visible count is at most the threshold.
C28_KeepsNewestVisible ==
    lastOp = "autoHide" =>
        /\ HiddenByRun \cap NewestVisible(pre, EffectiveThreshold) = {}
        /\ Cardinality(VisibleSet(chat)) >= Min(VisibleBefore, EffectiveThreshold)
        /\ (~settings.autoHideEnabled \/ VisibleBefore <= EffectiveThreshold)
              => chat = pre

\* C28 witness: a run with threshold 1 over four visible messages hid two and
\* left the two newest visible.
C28_Witness ==
    /\ lastOp = "autoHide"
    /\ EffectiveThreshold = 1
    /\ VisibleBefore = 4
    /\ HiddenByRun = {0, 1}
    /\ VisibleSet(chat) = {2, 3}

AutoHidden(c) == {idx \in Indices(c) : c[idx + 1].is_system /\ c[idx + 1].hider = "auto"}

AllReferenced == \A idx \in AutoHidden(chat) : ReferencedBySomeMemory(idx)

\* C30 as amended: auto-hide runs, extraction, branch switches and pruning
\* keep every auto-hidden message referenced by a stored memory; only the
\* deletion of a memory by the user can leave one without.
C30_ReferencedUnlessDeleted ==
    [][(AllReferenced /\ lastOp' # "deleteMemory") => AllReferenced']_vars

\* C30 witness: a message is auto-hidden and referenced after the vault was
\* pruned for a shorter branch.
C30_Witness ==
    /\ lastOp = "prune"
    /\ ret.prunedCount > 0
    /\ AutoHidden(chat) # {}
    /\ AllReferenced

\* C30 as stated: in every reachable state each auto-hidden message is
\* referenced by a stored memory.
C30_HiddenAlwaysReferenced == AllReferenced

\* ------------------------------------------------------------------ C37
\* C37: the current_emotion of a character with a non-empty emotion_history
\* is the emotion of the newest history entry; a character without history,
\* created as a witness only, has current_emotion "neutral".
C37_CurrentEmotionIsNewest ==
    \A n \in DOMAIN characters :
        LET history == characters[n].emotion_history
        IN  IF Len(history) > 0
            THEN characters[n].current_emotion = history[Len(history)].emotion
            ELSE characters[n].current_emotion = "neutral"

\* C37 witness: a reduction gave Alice the emotion "happy" as her newest entry
\* in a full history, and Bob exists as a witness only.
C37_Witness ==
    /\ ReducedOp
    /\ {"Alice", "Bob"} \subseteq DOMAIN characters
    /\ Len(characters["Alice"].emotion_history) = MAX_EMOTION_HISTORY
    /\ Len(Appended(Reduced, "Alice", 1)) > 0
    /\ characters["Alice"].current_emotion = "happy"
    /\ characters["Bob"].emotion_history = <<>>
    /\ characters["Bob"].known_events # <<>>
    /\ characters["Bob"].current_emotion = "neutral"

\* The rank of a proficiency in the order of the levels, 0 for novice.
LevelOf(proficiency) == indexOf(SkillProficiency, proficiency)

\* The skill of the last improveSkill call, before and after it.
ImprovedBefore ==
    pre.skills[pre.characterName][FindSkill(pre.skills, pre.characterName, pre.skillId)]

ImprovedAfter ==
    skills[pre.characterName][FindSkill(pre.skills, pre.characterName, pre.skillId)]

\* The number of successful improveSkill calls in a run of n calls on a skill.
RECURSIVE SuccessfulCalls(_, _, _, _)
SuccessfulCalls(sk, characterName, skillId, n) ==
    IF n = 0 THEN 0
    ELSE LET r == improveSkill(sk, characterName, skillId)
         IN  (IF r.ok THEN 1 ELSE 0)
                + SuccessfulCalls(r.skills, characterName, skillId, n - 1)

\* The skills after a run of n improveSkill calls on a skill.
RECURSIVE AfterCalls(_, _, _, _)
AfterCalls(sk, characterName, skillId, n) ==
    IF n = 0 THEN sk
    ELSE AfterCalls(improveSkill(sk, characterName, skillId).skills,
                    characterName, skillId, n - 1)

\* C34: improveSkill returning true has raised the proficiency of the skill by
\* exactly one level of novice, beginner, competent, skilled, expert, master and
\* changed nothing else; returning false it met a skill at master and changed
\* nothing; so the proficiency never decreases, and from every skill a run of
\* improveSkill calls has at most five successes and ends at master.
C34_ImproveOneLevel ==
    /\ lastOp = "improveSkillTrue" =>
          /\ LevelOf(ImprovedAfter.proficiency) = LevelOf(ImprovedBefore.proficiency) + 1
          /\ skills = [pre.skills EXCEPT
                          ![pre.characterName]
                              [FindSkill(pre.skills, pre.characterName, pre.skillId)]
                                  .proficiency = ImprovedAfter.proficiency]
    /\ lastOp = "improveSkillFalse" =>
          /\ ImprovedBefore.proficiency = "master"
          /\ skills = pre.skills
    /\ \A characterName \in DOMAIN skills :
          \A k \in 1..Len(skills[characterName]) :
             LET skillId == skills[characterName][k].id
                 calls == Len(SkillProficiency)
                 after == AfterCalls(skills, characterName, skillId, calls)
             IN  /\ SuccessfulCalls(skills, characterName, skillId, calls)
                       = Len(SkillProficiency) - 1
                            - LevelOf(skills[characterName][k].proficiency)
                 /\ after[characterName][k].proficiency = "master"

\* improveSkill returned false on a skill that an event created at novice and
\* that five successful calls have brought to master.
C34_Witness ==
    /\ lastOp = "improveSkillFalse"
    /\ ImprovedBefore.source_memory_id # None
    /\ ImprovedBefore.proficiency = "master"
    /\ ImprovedAfter.proficiency = "master"

\* C35: no character holds two skills whose names are equal ignoring case;
\* createSkill on a name the character has, ignoring case, returns that skill
\* and changes nothing, and on any other name it appends one skill.
C35_NoDuplicateSkills ==
    /\ \A characterName \in DOMAIN skills :
          \A j, k \in 1..Len(skills[characterName]) :
             EqualIgnoringCase(skills[characterName][j].skill,
                               skills[characterName][k].skill) => j = k
    /\ lastOp = "createSkillExisting" =>
          /\ skills = pre.skills
          /\ pre.returned \in 1..Len(ListBefore(pre.skills, pre.characterName))
          /\ EqualIgnoringCase(pre.skills[pre.characterName][pre.returned].skill,
                               pre.skillName)
    /\ lastOp = "createSkill" =>
          LET before == ListBefore(pre.skills, pre.characterName)
          IN  /\ \A k \in 1..Len(before) :
                    ~EqualIgnoringCase(before[k].skill, pre.skillName)
              /\ Len(skills[pre.characterName]) = Len(before) + 1
              /\ \A k \in 1..Len(before) : skills[pre.characterName][k] = before[k]
              /\ skills[pre.characterName][Len(before) + 1].skill = pre.skillName

\* createSkill("Go") met the skill "gO" that an event had created, next to a
\* skill the panel had created, and returned it.
C35_Witness ==
    /\ lastOp = "createSkillExisting"
    /\ pre.skillName = <<"G", "o">>
    /\ pre.skills[pre.characterName][pre.returned].skill = <<"g", "O">>
    /\ pre.skills[pre.characterName][pre.returned].source_memory_id # None
    /\ Len(skills[pre.characterName]) = 2

\* The importance the k-th element of the last extraction output carried, and
\* the importance stored for it.
ImportanceGiven(k) == pre.payload.elements[k].event.importance

ImportanceStored(k) == memories[Len(pre.memories) + k].importance

\* The last operation stored one memory for each element of its output.
StoredBatch ==
    /\ lastOp = "extractEvents"
    /\ Len(memories) = Len(pre.memories) + Len(pre.payload.elements)

RECURSIVE OnceEach(_)
OnceEach(list) ==
    IF list = <<>> THEN <<>>
    ELSE LET front == OnceEach(SubSeq(list, 1, Len(list) - 1))
         IN  IF Includes(front, list[Len(list)]) THEN front
             ELSE Append(front, list[Len(list)])

\* C36: no known_by list of a secret holds a character twice; after
\* revealSecretTo(id, chars) on a known id known_by is the previous list
\* followed by each character of chars that was not in it, once each, no other
\* secret has changed and the same call again changes nothing; on an unknown
\* id it returns false and changes nothing.
C36_RevealAddsOnce ==
    /\ \A id \in DOMAIN secrets :
          \A j, k \in 1..Len(secrets[id].known_by) :
             secrets[id].known_by[j] = secrets[id].known_by[k] => j = k
    /\ lastOp = "revealSecretToTrue" =>
          /\ pre.secretId \in DOMAIN pre.secrets
          /\ secrets = [pre.secrets EXCEPT ![pre.secretId].known_by =
                           @ \o OnceEach(NewKnowers(@, pre.characters))]
          /\ revealSecretTo(secrets, pre.secretId, pre.characters).secrets = secrets
    /\ lastOp = "revealSecretToFalse" =>
          /\ pre.secretId \notin DOMAIN pre.secrets
          /\ secrets = pre.secrets

\* The number of times a memory id occurs in a list of memory ids.
Occurrences(list, memoryId) ==
    Cardinality({k \in 1..Len(list) : list[k] = memoryId})

\* C32: linkMemoryToLocation(memoryId, name) with a name that getLocation
\* resolves, by key or by alias, returns without throwing, creates no
\* location, leaves the memory id exactly once in the memory_ids of the
\* resolved location, and a repeated call adds nothing.
C32_LinkResolvedName ==
    (/\ lastOp \in {"linkMemoryToLocation", "linkMemoryToLocationThrew"}
     /\ IsSome(getLocation(pre.locations, pre.locationName))) =>
        LET resolved == getLocation(pre.locations, pre.locationName)[1]
        IN  /\ lastOp = "linkMemoryToLocation"
            /\ DOMAIN locations = DOMAIN pre.locations
            /\ Occurrences(locations[resolved].memory_ids, pre.memoryId) = 1
            /\ linkMemoryToLocation(locations, pre.memoryId,
                                    pre.locationName).locations = locations

\* C31: a deferred auto-hide run is scheduled only while auto-hide is enabled,
\* runs only when a timer was pending, and, when the active conversation is
\* not the one it was scheduled in, changes no message of the active chat.
C31_HidesOnlyWhereScheduled ==
    [][/\ timers' > timers => settings.autoHideEnabled
       /\ timers' < timers =>
             /\ timers > 0
             /\ Head(scheduledIn) # activeChat => chat' = chat]_vars


====
